---------------------------- MODULE Spec2Model ----------------------------
(***************************************************************************)
(* A model of the VFS layer of sftpgo (internal/vfs/vfs.go):               *)
(*   - PipeWriter: the upload pipe with its completion channel;            *)
(*   - fsMetadataCheck, updateFileInfoModTime, getFolderModTimes: the      *)
(*     metadata reconciliation sweep and the per-stat lookups;             *)
(*   - the S3 / GCS / Azure Blob / Crypt configuration records: validate,  *)
(*     ValidateAndEncryptCredentials, isEqual, isSameResource.             *)
(* Strings that the code inspects character by character (paths, key       *)
(* prefixes) are sequences of one-character strings.                       *)
(***************************************************************************)
EXTENDS Integers, Sequences, FiniteSets, Bags, TLC

VARIABLES
    \* ---- PipeWriter (vfs.go 687-725) and its two goroutines
    err,            \* PipeWriter.err
    writerClosed,   \* the inner pipeat.PipeWriterAt has been closed
    readerClosed,   \* the uploader closed the reader side with an error
    buf,            \* chunks written to the pipe and not yet read
    toWrite,        \* chunks the caller intends to write
    written,        \* Write/WriteAt calls made so far
    writeErrs,      \* Write/WriteAt calls that returned an error
    callerPc,       \* position of the goroutine that writes and calls Close
    closeRet,       \* value returned by Close
    upPc,           \* position of the background uploader
    doneArg,        \* the error the uploader passes to Done
    uploaded,       \* chunks the uploader has read from the pipe
    \* ---- the metadata plugin, the backend and fsMetadataCheck (873-930)
    op,             \* the operation under way: "sweep", "stat" or "list"
    hasMetadater,   \* plugin.Handler.HasMetadater()
    nFolders,       \* number of folders the metadata plugin holds
    storageID,      \* argument of fsMetadataCheck
    keyPrefix,      \* argument of fsMetadataCheck
    failKind,       \* the kind of call that fails in this run ("none": none)
    failAt,         \* ... and which call of that kind fails (1 = the first)
    sweepPc,        \* position inside fsMetadataCheck
    from,           \* the pagination cursor
    metadataFolders,\* the current page
    idx,            \* folders of the current page already ranged over
    folder,         \* the folder being checked
    fsPrefix,       \* the folder with a trailing "/"
    metadataValues, \* the metadata map of the folder (key -> msec)
    fileNames,      \* the names the backend lists under fsPrefix
    pending,        \* keys of metadataValues not yet ranged over
    sweepRet,       \* value returned by fsMetadataCheck
    nCalls,         \* plugin and backend calls made so far, by kind
    requests,       \* the GetMetadataFolders requests made: <<from, limit>>
    visited,        \* bag of the folders the loop body has run for
    removed,        \* bag of the RemoveMetadata calls made
    \* ---- updateFileInfoModTime and getFolderModTimes (836-864)
    statArgs,       \* arguments and plugin reply of the call
    statRet,        \* what the call returned
    \* ---- the backend configurations (187-685)
    cfg,            \* the config the methods are called on
    cfg0,           \* the config as it was before the last call
    other,          \* the argument of isEqual and isSameResource
    cfgOp,          \* the last method called on cfg
    cfgRet,         \* the error it returned
    additionalData, \* argument of ValidateAndEncryptCredentials
    kmsFailure,     \* which Encrypt call the KMS fails (0: none)
    eqRet,          \* <<result>> of cfg.isEqual(other) once called
    sameRet,        \* <<result>> of cfg.isSameResource(other) once called
    \* ---- the values the helper functions are applied to (160-185, 740-818,
    \* 866-871)
    q,              \* the QuotaCheckResult
    remainingSize,  \* <<result>> of q.GetRemainingSize() once called
    remainingFiles, \* <<result>> of q.GetRemainingFiles() once called
    pathName,       \* the argument of the first ensureAbsPath call
    absPath,        \* the results of ensureAbsPath, each applied to the last
    fs,             \* the filesystem the predicates are asked about
    answers,        \* the results of the predicates called on fs so far
    \* ---- isEqualityCheckModeValid (727-729) and SetPathPermissions (820-834)
    mode,           \* the argument of isEqualityCheckModeValid
    modeValid,      \* <<result>> of isEqualityCheckModeValid(mode) once called
    permArgs,       \* path, uid and gid given to SetPathPermissions
    goos,           \* runtime.GOOS
    chownErr,       \* the error fs.Chown returns when called
    chownCalls,     \* the arguments of every fs.Chown call made
    logged,         \* the messages written with fsLog
    permDone,       \* SetPathPermissions has returned
    \* ---- a PipeWriter whose Close and Done are called by several
    \* goroutines (687-715)
    closePc,        \* where each Close call is
    donePc,         \* where each Done call is
    sharedErr,      \* p.err of that PipeWriter
    closeRets       \* what each Close call returned

pipeVars == <<err, writerClosed, readerClosed, buf, toWrite, written,
              writeErrs, callerPc, closeRet, upPc, doneArg, uploaded>>

sweepVars == <<op, hasMetadater, nFolders, storageID, keyPrefix, failKind,
               failAt, sweepPc, from, metadataFolders, idx, folder, fsPrefix,
               metadataValues, fileNames, pending, sweepRet, nCalls,
               requests, visited, removed, statArgs, statRet>>

cfgVars == <<cfg, cfg0, other, cfgOp, cfgRet, additionalData, kmsFailure,
             eqRet, sameRet>>

valueVars == <<q, remainingSize, remainingFiles, pathName, absPath, fs, answers>>

utilVars == <<mode, modeValid, permArgs, goos, chownErr, chownCalls, logged,
              permDone>>

callVars == <<closePc, donePc, sharedErr, closeRets>>

vars == <<pipeVars, sweepVars, cfgVars, valueVars, utilVars, callVars>>

notPipe == <<sweepVars, cfgVars, valueVars, utilVars, callVars>>
notSweep == <<pipeVars, cfgVars, valueVars, utilVars, callVars>>
notCfg == <<pipeVars, sweepVars, valueVars, utilVars, callVars>>
notValues == <<pipeVars, sweepVars, cfgVars, utilVars, callVars>>
notUtil == <<pipeVars, sweepVars, cfgVars, valueVars, callVars>>
notCalls == <<pipeVars, sweepVars, cfgVars, valueVars, utilVars>>

(***************************************************************************)
(* Bounds                                                                  *)
(***************************************************************************)
MaxWrites == 3
BufCap == 2
MaxFolders == 201
MaxFailAt == 2
MaxMode == 3
MaxClosers == 2
MaxDoners == 2

(***************************************************************************)
(* Strings as sequences of characters, and the functions of Go's strings   *)
(* and path packages that the code calls                                   *)
(***************************************************************************)
Min(a, b) == IF a < b THEN a ELSE b

\* strings.HasPrefix
HasPrefix(s, prefix) ==
    /\ Len(prefix) <= Len(s)
    /\ SubSeq(s, 1, Len(prefix)) = prefix

\* strings.HasSuffix
HasSuffix(s, suffix) ==
    /\ Len(suffix) <= Len(s)
    /\ SubSeq(s, Len(s) - Len(suffix) + 1, Len(s)) = suffix

\* path.IsAbs
IsAbs(name) == Len(name) > 0 /\ name[1] = "/"

\* path.Clean, the step for "..": drop the last element of out, but never
\* what lies before dotdot.
RECURSIVE Backtrack(_, _, _)
Backtrack(out, w, dotdot) ==
    IF w > dotdot /\ out[w + 1] # "/"
       THEN Backtrack(out, w - 1, dotdot)
       ELSE SubSeq(out, 1, w)

\* The first position at or after r that ends the path element starting at r.
RECURSIVE ElementEnd(_, _)
ElementEnd(path, r) ==
    IF r <= Len(path) /\ path[r] # "/" THEN ElementEnd(path, r + 1) ELSE r

\* path.Clean, its loop: r is the next position to read, out the output so
\* far, dotdot the length of out that ".." may not backtrack over.
RECURSIVE CleanLoop(_, _, _, _)
CleanLoop(path, r, out, dotdot) ==
    LET n == Len(path)
        rooted == path[1] = "/"
    IN  IF r > n THEN out
        ELSE IF path[r] = "/" THEN CleanLoop(path, r + 1, out, dotdot)
        ELSE IF path[r] = "." /\ (r = n \/ path[r + 1] = "/")
             THEN CleanLoop(path, r + 1, out, dotdot)
        ELSE IF path[r] = "." /\ path[r + 1] = "."
                /\ (r + 1 = n \/ path[r + 2] = "/")
             THEN IF Len(out) > dotdot
                     THEN CleanLoop(path, r + 2,
                                    Backtrack(out, Len(out) - 1, dotdot), dotdot)
                  ELSE IF ~rooted
                     THEN LET o2 == (IF Len(out) > 0 THEN Append(out, "/") ELSE out)
                                    \o <<".", ".">>
                          IN  CleanLoop(path, r + 2, o2, Len(o2))
                  ELSE CleanLoop(path, r + 2, out, dotdot)
        ELSE LET o1 == IF (rooted /\ Len(out) # 1) \/ (~rooted /\ Len(out) # 0)
                          THEN Append(out, "/") ELSE out
                 e == ElementEnd(path, r)
             IN  CleanLoop(path, e, o1 \o SubSeq(path, r, e - 1), dotdot)

\* path.Clean
Clean(path) ==
    IF path = <<>> THEN <<".">>
    ELSE LET rooted == path[1] = "/"
             res == CleanLoop(path, IF rooted THEN 2 ELSE 1,
                              IF rooted THEN <<"/">> ELSE <<>>,
                              IF rooted THEN 1 ELSE 0)
         IN  IF res = <<>> THEN <<".">> ELSE res

\* path.Join of two elements
Join(a, b) ==
    IF Len(a) + Len(b) = 0 THEN <<>>
    ELSE IF a = <<>> THEN Clean(b)
    ELSE IF b = <<>> THEN Clean(a)
    ELSE Clean(a \o <<"/">> \o b)

ensureAbsPathRelative(name) ==
    IF IsAbs(name) THEN name ELSE Clean(name)

ensureAbsPathCleaned(name) == Join(<<"/">>, name)

\* ensureAbsPath
ensureAbsPath(name) ==
    IF IsAbs(name) THEN name ELSE Join(<<"/">>, name)

\* The decimal digits of a natural number.
RECURSIVE Digits(_)
Digits(i) ==
    LET d == <<"0", "1", "2", "3", "4", "5", "6", "7", "8", "9">>[(i % 10) + 1]
    IN  IF i < 10 THEN <<d>> ELSE Append(Digits(i \div 10), d)

(***************************************************************************)
(* The metadata plugin and the backend, as fsMetadataCheck sees them       *)
(***************************************************************************)
Nil == "nil"
NoValue == "none"

\* limit := 100
limit == 100

\* The folders the plugin holds, in its own stable order: the i-th folder.
\* Four shapes of name alternate; the number makes each name distinct.
FolderName(i) ==
    LET t == (i - 1) % 4
    IN  CASE t = 0 -> <<"/", "p", "/", "a">> \o Digits(i)
          [] t = 1 -> <<"/", "q", "/", "a">> \o Digits(i)
          [] t = 2 -> <<"/", "p", "/", "b">> \o Digits(i) \o <<"/">>
          [] OTHER -> <<"/", "p">> \o Digits(i)

\* The position of a folder in the plugin's order; 0 for the cursor "".
FolderIndex(name, n) ==
    IF \E i \in 1..n : FolderName(i) = name
       THEN CHOOSE i \in 1..n : FolderName(i) = name
       ELSE 0

\* plugin.Handler.GetMetadataFolders(storageID, from, limit): the folders
\* after the cursor, at most limit of them.
GetMetadataFolders(cursor, lim, n) ==
    LET pos == FolderIndex(cursor, n)
    IN  [j \in 1..Min(lim, n - pos) |-> FolderName(pos + j)]

\* plugin.Handler.GetModificationTimes(storageID, folder): key -> msec.
ModificationTimes(i) ==
    LET t == ((i - 1) \div 4) % 5
        keys == CASE t = 0 -> {"x", "y"}
                  [] t = 1 -> {"y"}
                  [] t = 2 -> {}
                  [] t = 3 -> {"x"}
                  [] OTHER -> {}
    IN  [k \in keys |-> IF k = "x" THEN 1 ELSE 2]

\* fs.getFileNamesInPrefix(fsPrefix): the names the backend holds there.
FileNamesInPrefix(i) ==
    LET t == ((i - 1) \div 16) % 4
    IN  CASE t = 0 -> {"x"}
          [] t = 1 -> {}
          [] t = 2 -> {"x", "y"}
          [] OTHER -> {"y", "z"}

\* No call of updateFileInfoModTime or getFolderModTimes made (or returned).
NoStat == [err |-> NoValue]

NoCalls == [folders |-> 0, modtimes |-> 0, files |-> 0, remove |-> 0]

\* The state of the plugin, the backend and the sweep when none is under way.
SweepIdle ==
    /\ op = "none"
    /\ hasMetadater = FALSE
    /\ nFolders = 0
    /\ storageID = NoValue
    /\ keyPrefix = <<>>
    /\ failKind = "none"
    /\ failAt = 0
    /\ sweepPc = "idle"
    /\ from = <<>>
    /\ metadataFolders = <<>>
    /\ idx = 0
    /\ folder = <<>>
    /\ fsPrefix = <<>>
    /\ metadataValues = <<>>
    /\ fileNames = {}
    /\ pending = {}
    /\ sweepRet = NoValue
    /\ nCalls = NoCalls
    /\ requests = <<>>
    /\ visited = EmptyBag
    /\ removed = EmptyBag
    /\ statArgs = NoStat
    /\ statRet = NoStat

\* No configuration under test, no call returned.
NoCfg == [family |-> NoValue]
NoRet == [type |-> NoValue, msg |-> <<>>]

\* No value under test.
NoQuota == [QuotaSize |-> NoValue]
NoFs == [Name |-> <<>>, IsUploadResumeSupported |-> FALSE]

QuotaIdle == q = NoQuota /\ remainingSize = <<>> /\ remainingFiles = <<>>
PathIdle == pathName = <<>> /\ absPath = <<>>
FsIdle == fs = NoFs /\ answers = <<>>
NoMode == <<>>
NoPerm == [path |-> <<>>]
ModeIdle == mode = NoMode /\ modeValid = <<>>
PermIdle ==
    /\ permArgs = NoPerm /\ goos = NoValue /\ chownErr = NoValue
    /\ chownCalls = <<>> /\ logged = <<>> /\ permDone = FALSE
UtilIdle == ModeIdle /\ PermIdle
CallsIdle ==
    closePc = <<>> /\ donePc = <<>> /\ sharedErr = NoValue /\ closeRets = <<>>
ValuesIdle == QuotaIdle /\ PathIdle /\ FsIdle /\ UtilIdle /\ CallsIdle

CfgIdle ==
    /\ cfg = NoCfg
    /\ cfg0 = NoCfg
    /\ other = NoCfg
    /\ cfgOp = NoValue
    /\ cfgRet = NoRet
    /\ additionalData = ""
    /\ kmsFailure = 0
    /\ eqRet = <<>>
    /\ sameRet = <<>>

(***************************************************************************)
(* PipeWriter                                                              *)
(***************************************************************************)
UploadErrors == {"ErrTimeout", "ErrUpload"}

\* NewPipeWriter: err is nil, the done channel is unbuffered and empty.
NewPipeWriter ==
    /\ err = Nil
    /\ writerClosed = FALSE
    /\ readerClosed = FALSE
    /\ buf = 0
    /\ written = 0
    /\ writeErrs = 0
    /\ callerPc = "write"
    /\ closeRet = NoValue
    /\ upPc = "drain"
    /\ doneArg = NoValue
    /\ uploaded = 0

InitPipe ==
    /\ toWrite \in 0..MaxWrites
    /\ NewPipeWriter
    /\ SweepIdle
    /\ CfgIdle
    /\ ValuesIdle

\* PipeWriter.Write and PipeWriter.WriteAt: both forward the chunk to the
\* inner writer, which returns an error once the reader side is closed and
\* buffers the chunk otherwise (waiting while the buffer is full).
Write ==
    /\ callerPc = "write"
    /\ written < toWrite
    /\ written' = written + 1
    /\ IF readerClosed
          THEN /\ writeErrs' = writeErrs + 1
               /\ buf' = buf
          ELSE /\ buf < BufCap
               /\ buf' = buf + 1
               /\ writeErrs' = writeErrs
    /\ UNCHANGED <<err, writerClosed, readerClosed, toWrite, callerPc,
                   closeRet, upPc, doneArg, uploaded>>
    /\ UNCHANGED notPipe

\* Mutant of CloseWriterStep: Close waits without closing the writer side.
CloseWriterSkipped == writerClosed' = writerClosed

\* PipeWriter.Close, first statement: p.writer.Close()
CloseWriterStep == writerClosed' = TRUE

CloseWriter ==
    /\ callerPc = "write"
    /\ CloseWriterStep
    /\ callerPc' = "recv"
    /\ UNCHANGED <<err, readerClosed, buf, toWrite, written, writeErrs,
                   closeRet, upPc, doneArg, uploaded>>
    /\ UNCHANGED notPipe

\* Mutant of CloseResult: Close returns the error of p.writer.Close(), which
\* is always nil, instead of p.err.
CloseResultOfWriter == Nil

\* The value Close returns: p.err, read after the receive.
CloseResult == err

\* PipeWriter.Close, last statement: return p.err
CloseReturn ==
    /\ callerPc = "recvd"
    /\ closeRet' = CloseResult
    /\ callerPc' = "returned"
    /\ UNCHANGED <<err, writerClosed, readerClosed, buf, toWrite, written,
                   writeErrs, upPc, doneArg, uploaded>>
    /\ UNCHANGED notPipe

\* The uploader reads one chunk from the reader side of the pipe.
UploaderRead ==
    /\ upPc = "drain"
    /\ buf > 0
    /\ buf' = buf - 1
    /\ uploaded' = uploaded + 1
    /\ UNCHANGED <<err, writerClosed, readerClosed, toWrite, written,
                   writeErrs, callerPc, closeRet, upPc, doneArg>>
    /\ UNCHANGED notPipe

\* The uploader reads end-of-stream (the pipe is empty and its writer side
\* closed); the destination write ends with success or with an error.
UploaderEOF ==
    /\ upPc = "drain"
    /\ buf = 0
    /\ writerClosed
    /\ \E e \in UploadErrors \cup {Nil} : doneArg' = e
    /\ upPc' = "done"
    /\ UNCHANGED <<err, writerClosed, readerClosed, buf, toWrite, written,
                   writeErrs, callerPc, closeRet, uploaded>>
    /\ UNCHANGED notPipe

\* The destination write fails mid-stream: the uploader closes the reader
\* side with the error, so later writes fail, and goes on to call Done.
UploaderFail ==
    /\ upPc = "drain"
    /\ \E e \in UploadErrors : doneArg' = e
    /\ readerClosed' = TRUE
    /\ upPc' = "done"
    /\ UNCHANGED <<err, writerClosed, buf, toWrite, written, writeErrs,
                   callerPc, closeRet, uploaded>>
    /\ UNCHANGED notPipe

\* PipeWriter.Done, first statement: p.err = err
DoneStore(e) == err' = e

DoneCall ==
    /\ upPc = "done"
    /\ DoneStore(doneArg)
    /\ upPc' = "send"
    /\ UNCHANGED <<writerClosed, readerClosed, buf, toWrite, written,
                   writeErrs, callerPc, closeRet, doneArg, uploaded>>
    /\ UNCHANGED notPipe

\* Mutant of RecvReady: the receive completes without a sender, as it would
\* on a closed channel.
RecvNoWait == TRUE

\* When the receive of Close may complete: the channel is unbuffered, so a
\* sender has to be waiting in Done.
RecvReady == upPc = "send"

\* p.done <- true in Done meets <-p.done in Close.
Handshake ==
    /\ callerPc = "recv"
    /\ RecvReady
    /\ callerPc' = "recvd"
    /\ upPc' = IF upPc = "send" THEN "sent" ELSE upPc
    /\ UNCHANGED <<err, writerClosed, readerClosed, buf, toWrite, written,
                   writeErrs, closeRet, doneArg, uploaded>>
    /\ UNCHANGED notPipe

\* PipeWriter.Done returns.
DoneReturn ==
    /\ upPc = "sent"
    /\ upPc' = "returned"
    /\ UNCHANGED <<err, writerClosed, readerClosed, buf, toWrite, written,
                   writeErrs, callerPc, closeRet, doneArg, uploaded>>
    /\ UNCHANGED notPipe

NextPipe ==
    \/ Write
    \/ CloseWriter
    \/ CloseReturn
    \/ UploaderRead
    \/ UploaderEOF
    \/ UploaderFail
    \/ DoneCall
    \/ Handshake
    \/ DoneReturn

SpecPipe == InitPipe /\ [][NextPipe]_vars

\* Fair scheduling of the two goroutines: the caller gets to call Close and
\* to return from it, the uploader keeps reading and calls Done, and a
\* matched send and receive complete.  A failure of the destination write
\* (UploaderFail) and further writes of the caller are possible, not owed.
SpecPipeFair ==
    /\ SpecPipe
    /\ WF_vars(CloseWriter)
    /\ WF_vars(CloseReturn)
    /\ WF_vars(UploaderRead)
    /\ WF_vars(UploaderEOF)
    /\ WF_vars(DoneCall)
    /\ WF_vars(Handshake)
    /\ WF_vars(DoneReturn)

(***************************************************************************)
(* Claims about PipeWriter                                                 *)
(***************************************************************************)

\* C1: with one Done(e) and one Close, whatever the interleaving with the
\* writes, the value Close returns is the error e passed to Done (nil when
\* Done was given nil).
C1_CloseReturnsDoneError ==
    callerPc = "returned" => closeRet = doneArg

\* C1 witness: all chunks written, the uploader reported ErrTimeout and
\* Close has returned it.
C1_Witness ==
    /\ callerPc = "returned"
    /\ written = MaxWrites
    /\ doneArg = "ErrTimeout"
    /\ closeRet = "ErrTimeout"

\* C2: Close closes the inner writer before it waits on the completion
\* channel, and it returns only after Done was called and stored its error.
C2_CloseOrder ==
    /\ callerPc \in {"recv", "recvd", "returned"} => writerClosed
    /\ callerPc \in {"recvd", "returned"} =>
          /\ upPc \in {"sent", "returned"}
          /\ doneArg # NoValue
          /\ err = doneArg

\* C2 witness: Close has returned while Done, having stored a non-nil error
\* and sent, has not yet returned.
C2_Witness ==
    /\ callerPc = "returned"
    /\ upPc = "sent"
    /\ err \in UploadErrors

\* C3: under fair scheduling Close and Done both eventually return, also
\* when the caller closes before having written all its data.
C3_HandshakeCompletes ==
    <>(callerPc = "returned" /\ upPc = "returned")

\* C3 witness: both calls have returned, the caller having closed early and
\* the uploader having drained the pipe to end-of-stream.
C3_Witness ==
    /\ callerPc = "returned"
    /\ upPc = "returned"
    /\ written < toWrite
    /\ ~readerClosed
    /\ uploaded = written
    /\ uploaded > 0


(***************************************************************************)
(* fsMetadataCheck                                                         *)
(***************************************************************************)
sweepInputs == <<op, hasMetadater, nFolders, storageID, keyPrefix, failKind,
                 failAt>>
statVars == <<statArgs, statRet>>

FolderCounts == {0, 2, 5, limit, limit + 1, MaxFolders}
KeyPrefixes == {<<>>, <<"p", "/">>, <<"p", "/", "a", "5", "/">>}
CallKinds == {"folders", "modtimes", "files", "remove"}

\* The error a failing call of the kind returns.
ErrOf(kind) ==
    CASE kind = "folders" -> "ErrGetMetadataFolders"
      [] kind = "modtimes" -> "ErrGetModificationTimes"
      [] kind = "files" -> "ErrGetFileNamesInPrefix"
      [] OTHER -> "ErrRemoveMetadata"

\* Whether the call of the kind that is about to be made fails.
Fails(kind) == failKind = kind /\ nCalls[kind] + 1 = failAt

Called(kind) == [nCalls EXCEPT ![kind] = @ + 1]

InitSweep ==
    /\ NewPipeWriter
    /\ toWrite = 0
    /\ CfgIdle
    /\ ValuesIdle
    /\ op = "sweep"
    /\ storageID = "sid"
    /\ \/ /\ hasMetadater = TRUE
          /\ nFolders \in FolderCounts
          /\ keyPrefix \in KeyPrefixes
          /\ \/ failKind = "none" /\ failAt = 0
             \/ failKind \in CallKinds /\ failAt \in 1..MaxFailAt
       \/ /\ hasMetadater = FALSE
          /\ nFolders \in {0, 2}
          /\ keyPrefix \in KeyPrefixes
          /\ failKind = "none" /\ failAt = 0
    /\ sweepPc = "start"
    /\ from = <<>>
    /\ metadataFolders = <<>>
    /\ idx = 0
    /\ folder = <<>>
    /\ fsPrefix = <<>>
    /\ metadataValues = <<>>
    /\ fileNames = {}
    /\ pending = {}
    /\ sweepRet = NoValue
    /\ nCalls = NoCalls
    /\ requests = <<>>
    /\ visited = EmptyBag
    /\ removed = EmptyBag
    /\ statArgs = NoStat
    /\ statRet = NoStat

\* Mutant of SweepStart: the HasMetadater check of line 874 is missing.
SweepStartUnchecked ==
    /\ op = "sweep"
    /\ sweepPc = "start"
    /\ sweepPc' = "getFolders"
    /\ from' = <<>>
    /\ UNCHANGED <<metadataFolders, idx, folder, fsPrefix, metadataValues,
                   fileNames, pending, sweepRet, nCalls, requests, visited,
                   removed>>
    /\ UNCHANGED <<sweepInputs, statVars, notSweep>>

\* Lines 874-878: without a metadata plugin return nil, else set the cursor.
SweepStart ==
    /\ op = "sweep"
    /\ sweepPc = "start"
    /\ IF ~hasMetadater
          THEN sweepPc' = "ret" /\ sweepRet' = Nil
          ELSE sweepPc' = "getFolders" /\ sweepRet' = sweepRet
    /\ from' = <<>>
    /\ UNCHANGED <<metadataFolders, idx, folder, fsPrefix, metadataValues,
                   fileNames, pending, nCalls, requests, visited, removed>>
    /\ UNCHANGED <<sweepInputs, statVars, notSweep>>

\* Lines 880-884: request the page after the cursor; an error is returned.
SweepGetFolders ==
    /\ sweepPc = "getFolders"
    /\ nCalls' = Called("folders")
    /\ requests' = Append(requests, <<from, limit>>)
    /\ IF Fails("folders")
          THEN /\ sweepPc' = "ret"
               /\ sweepRet' = ErrOf("folders")
               /\ UNCHANGED <<metadataFolders, idx>>
          ELSE /\ metadataFolders' = GetMetadataFolders(from, limit, nFolders)
               /\ idx' = 0
               /\ sweepPc' = "loop"
               /\ sweepRet' = sweepRet
    /\ UNCHANGED <<from, folder, fsPrefix, metadataValues, fileNames, pending,
                   visited, removed>>
    /\ UNCHANGED <<sweepInputs, statVars, notSweep>>

\* Lines 887-890: the folder with a trailing "/".
FsPrefixOf(f) == IF ~HasSuffix(f, <<"/">>) THEN f \o <<"/">> ELSE f

\* Mutant of OutsidePrefix: no folder is skipped.
OutsidePrefixNever(prefix, kp) == FALSE

\* Lines 891-897: the folder lies outside the key prefix.
OutsidePrefix(prefix, kp) ==
    kp # <<>> /\ ~HasPrefix(prefix, <<"/">> \o kp)

\* Mutant of SweepNextFolder: a skipped folder does not become the cursor.
SweepNextFolderCursorAfterFilter ==
    /\ sweepPc = "loop"
    /\ idx < Len(metadataFolders)
    /\ LET f == metadataFolders[idx + 1]
       IN  /\ idx' = idx + 1
           /\ from' = IF OutsidePrefix(FsPrefixOf(f), keyPrefix) THEN from ELSE f
           /\ folder' = f
           /\ fsPrefix' = FsPrefixOf(f)
           /\ visited' = visited (+) SetToBag({f})
           /\ sweepPc' = IF OutsidePrefix(FsPrefixOf(f), keyPrefix)
                            THEN "loop" ELSE "getModTimes"
    /\ UNCHANGED <<metadataFolders, metadataValues, fileNames, pending,
                   sweepRet, nCalls, requests, removed>>
    /\ UNCHANGED <<sweepInputs, statVars, notSweep>>

\* Lines 885-898: the next folder of the page becomes the cursor; a folder
\* outside the key prefix is skipped.
SweepNextFolder ==
    /\ sweepPc = "loop"
    /\ idx < Len(metadataFolders)
    /\ LET f == metadataFolders[idx + 1]
       IN  /\ idx' = idx + 1
           /\ from' = f
           /\ folder' = f
           /\ fsPrefix' = FsPrefixOf(f)
           /\ visited' = visited (+) SetToBag({f})
           /\ sweepPc' = IF OutsidePrefix(FsPrefixOf(f), keyPrefix)
                            THEN "loop" ELSE "getModTimes"
    /\ UNCHANGED <<metadataFolders, metadataValues, fileNames, pending,
                   sweepRet, nCalls, requests, removed>>
    /\ UNCHANGED <<sweepInputs, statVars, notSweep>>

\* Lines 899-907: the metadata map of the folder; an error is returned, an
\* empty map ends the work on the folder.
SweepGetModTimes ==
    /\ sweepPc = "getModTimes"
    /\ nCalls' = Called("modtimes")
    /\ IF Fails("modtimes")
          THEN /\ sweepPc' = "ret"
               /\ sweepRet' = ErrOf("modtimes")
               /\ UNCHANGED metadataValues
          ELSE LET m == ModificationTimes(FolderIndex(folder, nFolders))
               IN  /\ metadataValues' = m
                   /\ sweepPc' = IF Cardinality(DOMAIN m) = 0
                                    THEN "loop" ELSE "getFiles"
                   /\ sweepRet' = sweepRet
    /\ UNCHANGED <<from, metadataFolders, idx, folder, fsPrefix, fileNames,
                   pending, requests, visited, removed>>
    /\ UNCHANGED <<sweepInputs, statVars, notSweep>>

\* The folder whose prefix the backend is asked to list.
PrefixIndex(prefix, n) ==
    IF \E i \in 1..n : FsPrefixOf(FolderName(i)) = prefix
       THEN CHOOSE i \in 1..n : FsPrefixOf(FolderName(i)) = prefix
       ELSE 0

\* Lines 908-912: the names the backend holds under fsPrefix; an error is
\* returned.
SweepGetFileNames ==
    /\ sweepPc = "getFiles"
    /\ nCalls' = Called("files")
    /\ IF Fails("files")
          THEN /\ sweepPc' = "ret"
               /\ sweepRet' = ErrOf("files")
               /\ UNCHANGED <<fileNames, pending>>
          ELSE /\ fileNames' = FileNamesInPrefix(PrefixIndex(fsPrefix, nFolders))
               /\ pending' = DOMAIN metadataValues
               /\ sweepPc' = "keys"
               /\ sweepRet' = sweepRet
    /\ UNCHANGED <<from, metadataFolders, idx, folder, fsPrefix,
                   metadataValues, requests, visited, removed>>
    /\ UNCHANGED <<sweepInputs, statVars, notSweep>>

\* Mutant of IsMissing: the test of line 915 inverted.
IsMissingInverted(k, names) == k \in names

\* Line 915: the key has metadata and no object.
IsMissing(k, names) == k \notin names

\* Line 916: the path whose metadata is removed.
FilePath(f, k) == ensureAbsPath(Join(f, <<k>>))

\* Mutant of AfterRemoveError: the error of RemoveMetadata ends the sweep.
AfterRemoveErrorAbort(last) == "ret"

\* Where the sweep goes after a RemoveMetadata call that failed (lines
\* 917-918: the error is logged, the range goes on).
AfterRemoveError(last) == IF last THEN "loop" ELSE "keys"

\* Lines 914-923: one iteration of the range over the metadata map, in any
\* order: RemoveMetadata for a key without object, its error only logged.
SweepRangeKey ==
    /\ sweepPc = "keys"
    /\ \E k \in pending :
          /\ pending' = pending \ {k}
          /\ IF IsMissing(k, fileNames)
                THEN /\ nCalls' = Called("remove")
                     /\ removed' = removed (+) SetToBag({
                            [storage |-> storageID, path |-> FilePath(folder, k),
                             folder |-> folder, key |-> k,
                             failed |-> Fails("remove")]})
                     /\ sweepPc' = IF Fails("remove")
                                      THEN AfterRemoveError(pending = {k})
                                      ELSE IF pending = {k} THEN "loop" ELSE "keys"
                ELSE /\ UNCHANGED <<nCalls, removed>>
                     /\ sweepPc' = IF pending = {k} THEN "loop" ELSE "keys"
    /\ UNCHANGED <<from, metadataFolders, idx, folder, fsPrefix,
                   metadataValues, fileNames, sweepRet, requests, visited>>
    /\ UNCHANGED <<sweepInputs, statVars, notSweep>>

\* Mutant of ShortPage: <= for <.
ShortOrFullPage(page) == Len(page) <= limit

\* Line 926: the page is the last one.
ShortPage(page) == Len(page) < limit

\* Lines 926-929: after the last folder of the page, return nil when the
\* page is short and request the next page otherwise.
SweepEndPage ==
    /\ sweepPc = "loop"
    /\ idx = Len(metadataFolders)
    /\ IF ShortPage(metadataFolders)
          THEN sweepPc' = "ret" /\ sweepRet' = Nil
          ELSE sweepPc' = "getFolders" /\ sweepRet' = sweepRet
    /\ UNCHANGED <<from, metadataFolders, idx, folder, fsPrefix,
                   metadataValues, fileNames, pending, nCalls, requests,
                   visited, removed>>
    /\ UNCHANGED <<sweepInputs, statVars, notSweep>>

(***************************************************************************)
(* updateFileInfoModTime and getFolderModTimes                             *)
(***************************************************************************)
IsNoSuchObjectUnwrapped(e) == e = "ErrNoSuchObject"

\* errors.Is(err, metadata.ErrNoSuchObject): the sentinel, also when wrapped.
IsNoSuchObject(e) == e \in {"ErrNoSuchObject", "wrapped ErrNoSuchObject"}

PluginErrors == {Nil, "ErrNoSuchObject", "wrapped ErrNoSuchObject", "ErrPlugin"}

\* util.GetTimeFromMsecSinceEpoch: the time, in nanoseconds since the epoch.
GetTimeFromMsecSinceEpoch(msec) == msec * 1000000

\* updateFileInfoModTime(storageID, objectPath, info), the plugin answering
\* GetModificationTime with reply = [mTime, err].  The result: the info and
\* the error returned, and the plugin calls made.
updateFileInfoModTime(has, sid, objectPath, info, reply) ==
    IF ~has THEN [info |-> info, err |-> Nil, calls |-> <<>>]
    ELSE IF info.isDir THEN [info |-> info, err |-> Nil, calls |-> <<>>]
    ELSE LET call == [fn |-> "GetModificationTime", storage |-> sid,
                      path |-> ensureAbsPath(objectPath), isDir |-> info.isDir]
         IN  IF IsNoSuchObject(reply.err)
                THEN [info |-> info, err |-> Nil, calls |-> <<call>>]
             ELSE IF reply.err # Nil
                THEN [info |-> info, err |-> reply.err, calls |-> <<call>>]
             ELSE [info |-> [info EXCEPT !.modTime =
                                 GetTimeFromMsecSinceEpoch(reply.mTime)],
                   err |-> Nil, calls |-> <<call>>]

\* getFolderModTimes(storageID, dirName), the plugin answering
\* GetModificationTimes with reply = [modTimes, err].
getFolderModTimes(has, sid, dirName, reply) ==
    IF has
       THEN LET call == [fn |-> "GetModificationTimes", storage |-> sid,
                         path |-> ensureAbsPath(dirName)]
            IN  IF reply.err # Nil /\ ~IsNoSuchObject(reply.err)
                   THEN [modTimes |-> reply.modTimes, err |-> reply.err,
                         calls |-> <<call>>]
                   ELSE [modTimes |-> reply.modTimes, err |-> Nil,
                         calls |-> <<call>>]
       ELSE [modTimes |-> <<>>, err |-> Nil, calls |-> <<>>]

StatPaths == {<<"d", "/", "x">>, <<"/", "d", "/", "x">>, <<"d", "/">>}
StatModTimes == {0, 5000000}
StatReplies ==
    {[mTime |-> 7, err |-> Nil]} \cup
    {[mTime |-> 0, err |-> e] : e \in PluginErrors \ {Nil}}
ListReplies ==
    {[modTimes |-> [k \in {"x", "y"} |-> IF k = "x" THEN 1 ELSE 2], err |-> Nil],
     [modTimes |-> <<>>, err |-> Nil]} \cup
    {[modTimes |-> <<>>, err |-> e] : e \in PluginErrors \ {Nil}}

InitStat ==
    /\ NewPipeWriter
    /\ toWrite = 0
    /\ CfgIdle
    /\ ValuesIdle
    /\ op \in {"stat", "list"}
    /\ storageID = "sid"
    /\ hasMetadater \in BOOLEAN
    /\ nFolders = 0
    /\ keyPrefix = <<>>
    /\ failKind = "none" /\ failAt = 0
    /\ sweepPc = "idle"
    /\ from = <<>>
    /\ metadataFolders = <<>>
    /\ idx = 0
    /\ folder = <<>>
    /\ fsPrefix = <<>>
    /\ metadataValues = <<>>
    /\ fileNames = {}
    /\ pending = {}
    /\ sweepRet = NoValue
    /\ nCalls = NoCalls
    /\ requests = <<>>
    /\ visited = EmptyBag
    /\ removed = EmptyBag
    /\ IF op = "stat"
          THEN statArgs \in [path : StatPaths,
                             info : [isDir : BOOLEAN, modTime : StatModTimes],
                             reply : StatReplies]
          ELSE statArgs \in [path : StatPaths, reply : ListReplies]
    /\ statRet = NoStat

\* A call of updateFileInfoModTime.
StatCall ==
    /\ op = "stat"
    /\ statRet = NoStat
    /\ statRet' = updateFileInfoModTime(hasMetadater, storageID, statArgs.path,
                                        statArgs.info, statArgs.reply)
    /\ UNCHANGED <<sweepPc, from, metadataFolders, idx, folder, fsPrefix,
                   metadataValues, fileNames, pending, sweepRet, nCalls,
                   requests, visited, removed, statArgs>>
    /\ UNCHANGED <<sweepInputs, notSweep>>

\* A call of getFolderModTimes.
ListCall ==
    /\ op = "list"
    /\ statRet = NoStat
    /\ statRet' = getFolderModTimes(hasMetadater, storageID, statArgs.path,
                                    statArgs.reply)
    /\ UNCHANGED <<sweepPc, from, metadataFolders, idx, folder, fsPrefix,
                   metadataValues, fileNames, pending, sweepRet, nCalls,
                   requests, visited, removed, statArgs>>
    /\ UNCHANGED <<sweepInputs, notSweep>>

InitMeta == InitSweep \/ InitStat

NextMeta ==
    \/ SweepStart
    \/ SweepGetFolders
    \/ SweepNextFolder
    \/ SweepGetModTimes
    \/ SweepGetFileNames
    \/ SweepRangeKey
    \/ SweepEndPage
    \/ StatCall
    \/ ListCall

\* The metadata operations: a sweep, a per-stat lookup or a folder listing.
SpecMeta == InitMeta /\ [][NextMeta]_vars


(***************************************************************************)
(* Claims about the metadata operations                                    *)
(***************************************************************************)
\* The folders the plugin holds, each once.
AllFolders == {FolderName(i) : i \in 1..nFolders}

\* The key-prefix filter as the specification words it.
PassesFilter(f) ==
    \/ keyPrefix = <<>>
    \/ HasPrefix(IF f[Len(f)] = "/" THEN f ELSE Append(f, "/"),
                 <<"/">> \o keyPrefix)

\* The (folder, key, path) triples a complete sweep owes a RemoveMetadata
\* call: keys with metadata and without object, in folders inside the prefix.
OwedRemovals ==
    {[folder |-> FolderName(i), key |-> k,
      path |-> ensureAbsPath(Join(FolderName(i), <<k>>))] :
        <<i, k>> \in {ik \in (1..nFolders) \X {"x", "y", "z"} :
                        /\ PassesFilter(FolderName(ik[1]))
                        /\ ik[2] \in DOMAIN ModificationTimes(ik[1])
                        /\ ik[2] \notin FileNamesInPrefix(ik[1])}}

\* The RemoveMetadata calls made so far, as (folder, key, path) triples.
RemovalsMade ==
    {[folder |-> e.folder, key |-> e.key, path |-> e.path] :
        e \in BagToSet(removed)}

Returned == op = "sweep" /\ sweepPc = "ret"

\* C4: with a plugin and no failing call, RemoveMetadata(storageID,
\* ensureAbsPath(join(folder, k))) is called exactly once for each key k of
\* a folder inside the prefix that has metadata and no object, and for no
\* other key.
C4_RemovesExactlyOrphans ==
    (op = "sweep" /\ hasMetadater /\ failKind = "none") =>
        /\ \A e \in BagToSet(removed) :
              /\ CopiesIn(e, removed) = 1
              /\ e.storage = storageID
              /\ ~e.failed
        /\ RemovalsMade \subseteq OwedRemovals
        /\ Returned => RemovalsMade = OwedRemovals

\* C4 witness: folders /p/a1 and /q/a2, metadata {x, y} under /p/a1, the
\* backend lists {x}: the sweep has returned after one call, for /p/a1/y.
C4_Witness ==
    /\ Returned
    /\ failKind = "none"
    /\ nFolders = 2
    /\ keyPrefix = <<"p", "/">>
    /\ BagToSet(removed) =
          {[storage |-> "sid", path |-> <<"/", "p", "/", "a", "1", "/", "y">>,
            folder |-> <<"/", "p", "/", "a", "1">>, key |-> "y",
            failed |-> FALSE]}

AbortKinds == {"folders", "modtimes", "files"}

\* The call chosen to fail has been made.
FailureHappened == failKind # "none" /\ nCalls[failKind] >= failAt

\* C5, first half: a failing RemoveMetadata does not end the sweep: the
\* sweep never returns its error, and when it returns it has ranged over
\* every folder and made every call owed.
C5_RemoveErrorGoesOn ==
    (op = "sweep" /\ failKind = "remove") =>
        /\ sweepRet \in {NoValue, Nil}
        /\ Returned =>
              /\ sweepRet = Nil
              /\ BagToSet(visited) = AllFolders
              /\ RemovalsMade = OwedRemovals

\* C5, second half: a failing GetMetadataFolders, GetModificationTimes or
\* getFileNamesInPrefix ends the sweep at once with that error.
C5_OtherErrorsAbort ==
    (op = "sweep" /\ failKind \in AbortKinds /\ FailureHappened) =>
        /\ Returned
        /\ sweepRet = ErrOf(failKind)
        /\ nCalls[failKind] = failAt

\* C5, second half: once the sweep has aborted no further plugin or backend
\* call is made.
C5_NoCallAfterAbort ==
    (op = "sweep" /\ failKind \in AbortKinds /\ FailureHappened) =>
        /\ nCalls' = nCalls
        /\ requests' = requests
        /\ removed' = removed

\* C5: a RemoveMetadata failure does not stop the sweep; a failure of
\* GetMetadataFolders, GetModificationTimes or getFileNamesInPrefix ends it
\* at once, the error is returned and no further call is made.
C5_ErrorPolicy ==
    /\ [](C5_RemoveErrorGoesOn /\ C5_OtherErrorsAbort)
    /\ [][C5_NoCallAfterAbort]_vars

\* C5 witness: the sweep has returned nil although a RemoveMetadata call
\* failed, and it made a successful call for a later folder.
C5_Witness ==
    /\ Returned
    /\ sweepRet = Nil
    /\ failKind = "remove"
    /\ \E e1, e2 \in BagToSet(removed) :
          e1.failed /\ ~e2.failed /\ e1.folder # e2.folder

\* The number of pages a complete sweep requests.
PagesOwed == (nFolders \div limit) + 1

\* C6 as amended: unless a GetMetadataFolders, GetModificationTimes or
\* getFileNamesInPrefix call fails, the sweep returns exactly after the
\* first short page: it returns nil, every full page was followed by another
\* request, no page was requested after the short one, and (the plugin
\* paging in a stable order) every folder was ranged over exactly once.
C6_ReturnsAfterShortPage ==
    (op = "sweep" /\ hasMetadater /\ failKind \notin AbortKinds) =>
        /\ \A f \in BagToSet(visited) : CopiesIn(f, visited) = 1
        /\ Len(requests) <= PagesOwed
        /\ (sweepPc = "getFolders" /\ requests # <<>>) =>
              Len(metadataFolders) = limit
        /\ Returned =>
              /\ sweepRet = Nil
              /\ ShortPage(metadataFolders)
              /\ Len(requests) = PagesOwed
              /\ BagToSet(visited) = AllFolders

\* The steps a sweep has at most left: per folder one step to take it from
\* the page, one for each of the two lookups and one per metadata key; per
\* page one request and one test of its length.
MaxKeys == 2
FolderSteps == 3 + MaxKeys
PageSteps == FolderSteps * limit + 2
StepsLeft ==
    LET pagesLeft == PagesOwed - Len(requests)
        inFolder == CASE sweepPc = "getModTimes" -> 2 + MaxKeys
                      [] sweepPc = "getFiles" -> 1 + MaxKeys
                      [] sweepPc = "keys" -> Cardinality(pending)
                      [] OTHER -> 0
    IN  CASE sweepPc = "ret" -> 0
          [] sweepPc = "start" -> PagesOwed * PageSteps + 1
          [] sweepPc = "getFolders" -> pagesLeft * PageSteps
          [] OTHER -> pagesLeft * PageSteps
                      + FolderSteps * (Len(metadataFolders) - idx) + inFolder + 1

\* C6 as amended, termination: a sweep that has not returned can take a
\* step, and every step lowers the bound StepsLeft, which is never negative.
C6_Progress ==
    op = "sweep" =>
        /\ StepsLeft >= 0
        /\ ~Returned => ENABLED NextMeta

C6_Decreases == op = "sweep" => StepsLeft' < StepsLeft

\* C6 as amended.
C6_ShortPageEndsSweep ==
    /\ [](C6_ReturnsAfterShortPage /\ C6_Progress)
    /\ [][C6_Decreases]_vars

\* C6 witness: two full pages and a page of one folder: the sweep returned
\* after three requests, having ranged over all folders.
C6_Witness ==
    /\ Returned
    /\ failKind = "none"
    /\ nFolders = 2 * limit + 1
    /\ Len(requests) = 3
    /\ Len(metadataFolders) = 1
    /\ BagToSet(visited) = AllFolders

\* C6 as stated: the sweep terminates exactly when a page is short, a page
\* of exactly 100 folders always triggering another request.
C6_Original ==
    (op = "sweep" /\ hasMetadater /\ sweepPc = "ret") =>
        /\ ShortPage(metadataFolders)
        /\ BagToSet(visited) = AllFolders

\* C7: without a metadata plugin fsMetadataCheck returns nil and makes no
\* plugin or backend call, updateFileInfoModTime returns the info it was
\* given and no error, getFolderModTimes returns an empty map and no error.
C7_NoPluginNoOp ==
    ~hasMetadater =>
        /\ op = "sweep" =>
              /\ sweepPc \in {"start", "ret"}
              /\ sweepPc = "ret" => sweepRet = Nil
              /\ nCalls = NoCalls
              /\ requests = <<>>
              /\ removed = EmptyBag
        /\ (op = "stat" /\ statRet # NoStat) =>
              /\ statRet.info = statArgs.info
              /\ statRet.err = Nil
              /\ statRet.calls = <<>>
        /\ (op = "list" /\ statRet # NoStat) =>
              /\ DOMAIN statRet.modTimes = {}
              /\ statRet.err = Nil
              /\ statRet.calls = <<>>

\* C7 witness: a sweep without plugin has returned.
C7_Witness ==
    /\ ~hasMetadater
    /\ Returned
    /\ nFolders = 2

(***************************************************************************)
(* Errors: a nil error, errors.New / fmt.Errorf, util.NewValidationError,  *)
(* each with its message as the sequence of its parts.                     *)
(***************************************************************************)

NilErr == [type |-> Nil, msg |-> <<>>]
ErrorsNew(text) == [type |-> "error", msg |-> <<text>>]
\* errors.New with the text given in parts, a field name it starts with first
ErrorsNewAbout(field, text) == [type |-> "error", msg |-> <<field, text>>]
Errorf(text, e) == [type |-> "error", msg |-> <<text>> \o e.msg]
NewValidationError(text, e) == [type |-> "ValidationError", msg |-> <<text>> \o e.msg]

(***************************************************************************)
(* kms.Secret, as the configurations use it.  A Secret is a record of its  *)
(* status, payload, key and additional data; a nil *kms.Secret is the      *)
(* record NilSecret.  The methods are only applied to non-nil Secrets.     *)
(***************************************************************************)

SecretStatusPlain == "Plain"
SecretStatusSecretBox == "Secretbox"
KeyOK == "k64"

NilSecret == [status |-> "<nil>", payload |-> <<>>, key |-> "", ad |-> ""]
NewEmptySecret == [status |-> "", payload |-> <<>>, key |-> "", ad |-> ""]
NewPlainSecret(p) == [status |-> SecretStatusPlain, payload |-> p, key |-> "", ad |-> ""]
NewSecret(st, p, k, a) == [status |-> st, payload |-> p, key |-> k, ad |-> a]

IsNil(s) == s = NilSecret
IsEmpty(s) == s.status = "" /\ s.payload = <<>> /\ s.key = "" /\ s.ad = ""
IsPlain(s) == s.status = SecretStatusPlain
IsEncrypted(s) == s.status = SecretStatusSecretBox
IsValidInput(s) ==
    /\ s.status \in {SecretStatusPlain, SecretStatusSecretBox}
    /\ s.payload # <<>>
IsValid(s) ==
    /\ IsValidInput(s)
    /\ (s.status = SecretStatusSecretBox => s.key = KeyOK)
GetPayload(s) == s.payload
SecretIsEqual(s, t) == s = t
SetAdditionalData(s, value) == [s EXCEPT !.ad = value]
\* Hide: the key and the additional data, which are needed to decrypt the
\* payload, are cleared; the status and the payload stay.
Hide(s) == [s EXCEPT !.key = "", !.ad = ""]

\* Encrypt: only a plain Secret with a payload can be encrypted, and the KMS
\* may fail; the ciphertext is bound to the payload and the additional data.
Encrypt(s, kmsFails) ==
    IF ~IsPlain(s) THEN [secret |-> s, err |-> ErrorsNew("wrong secret status")]
    ELSE IF s.payload = <<>> THEN [secret |-> s, err |-> ErrorsNew("invalid secret")]
    ELSE IF kmsFails THEN [secret |-> s, err |-> ErrorsNew("encryption failed")]
    ELSE [secret |-> NewSecret(SecretStatusSecretBox,
                               <<"enc">> \o s.payload \o <<s.ad>>, KeyOK, s.ad),
          err |-> NilErr]

\* A string is the sequence of its characters, each a one-character string;
\* a character that cannot be written in a string is named by its code point.
\* unicode.IsSpace: the white space of Latin-1 and of the category Z.
asciiSpace == {"\t", "\n", "U+000B", "\f", "\r", " "}
WhiteSpace ==
    asciiSpace \cup
    {"U+0085", "U+00A0", "U+1680", "U+2000", "U+2001", "U+2002", "U+2003",
     "U+2004", "U+2005", "U+2006", "U+2007", "U+2008", "U+2009", "U+200A",
     "U+2028", "U+2029", "U+202F", "U+205F", "U+3000"}

\* strings.TrimSpace: all leading and trailing white space removed
RECURSIVE TrimLeft(_)
TrimLeft(s) == IF s # <<>> /\ Head(s) \in WhiteSpace THEN TrimLeft(Tail(s)) ELSE s

RECURSIVE TrimRight(_)
TrimRight(s) ==
    IF s # <<>> /\ s[Len(s)] \in WhiteSpace
    THEN TrimRight(SubSeq(s, 1, Len(s) - 1))
    ELSE s

TrimSpace(s) == TrimRight(TrimLeft(s))

(***************************************************************************)
(* net/url, as url.Parse goes through it.  Only the error of the call is   *)
(* used (vfs.go:546), so each step is modelled by the error it returns.    *)
(***************************************************************************)

Letters ==
    {"a", "b", "c", "d", "e", "f", "g", "h", "i", "j", "k", "l", "m", "n",
     "o", "p", "q", "r", "s", "t", "u", "v", "w", "x", "y", "z", "A", "B",
     "C", "D", "E", "F", "G", "H", "I", "J", "K", "L", "M", "N", "O", "P",
     "Q", "R", "S", "T", "U", "V", "W", "X", "Y", "Z"}
DecimalDigits == {"0", "1", "2", "3", "4", "5", "6", "7", "8", "9"}
\* the bytes below 0x20 and 0x7f
ControlBytes ==
    {"U+0000", "U+0001", "U+0002", "U+0003", "U+0004", "U+0005", "U+0006",
     "U+0007", "U+0008", "\t", "\n", "U+000B", "\f", "\r", "U+000E",
     "U+000F", "U+0010", "U+0011", "U+0012", "U+0013", "U+0014", "U+0015",
     "U+0016", "U+0017", "U+0018", "U+0019", "U+001A", "U+001B", "U+001C",
     "U+001D", "U+001E", "U+001F", "U+007F"}
\* utf8: a character outside ASCII is two or three bytes; a byte of 0x80 or
\* more that is not part of a complete encoding is named by its value
RawBytes ==
    {"0x80", "0x81", "0x82", "0x83", "0x84", "0x85", "0x86", "0x87",
     "0x88", "0x89", "0x8A", "0x9A", "0x9F", "0xA0", "0xA8", "0xA9",
     "0xAF", "0xC2", "0xE1", "0xE2", "0xE3"}
NonASCIIChars == WhiteSpace \ asciiSpace
\* the characters and bytes of the alphabet that are not ASCII
NonASCII == NonASCIIChars \cup RawBytes

EncodeRune(c) ==
    CASE c = "U+0085" -> <<"0xC2", "0x85">>
      [] c = "U+00A0" -> <<"0xC2", "0xA0">>
      [] c = "U+1680" -> <<"0xE1", "0x9A", "0x80">>
      [] c = "U+2000" -> <<"0xE2", "0x80", "0x80">>
      [] c = "U+2001" -> <<"0xE2", "0x80", "0x81">>
      [] c = "U+2002" -> <<"0xE2", "0x80", "0x82">>
      [] c = "U+2003" -> <<"0xE2", "0x80", "0x83">>
      [] c = "U+2004" -> <<"0xE2", "0x80", "0x84">>
      [] c = "U+2005" -> <<"0xE2", "0x80", "0x85">>
      [] c = "U+2006" -> <<"0xE2", "0x80", "0x86">>
      [] c = "U+2007" -> <<"0xE2", "0x80", "0x87">>
      [] c = "U+2008" -> <<"0xE2", "0x80", "0x88">>
      [] c = "U+2009" -> <<"0xE2", "0x80", "0x89">>
      [] c = "U+200A" -> <<"0xE2", "0x80", "0x8A">>
      [] c = "U+2028" -> <<"0xE2", "0x80", "0xA8">>
      [] c = "U+2029" -> <<"0xE2", "0x80", "0xA9">>
      [] c = "U+202F" -> <<"0xE2", "0x80", "0xAF">>
      [] c = "U+205F" -> <<"0xE2", "0x81", "0x9F">>
      [] c = "U+3000" -> <<"0xE3", "0x80", "0x80">>
      [] OTHER -> <<c>>

\* []byte(s)
RECURSIVE Bytes(_)
Bytes(s) == IF s = <<>> THEN <<>> ELSE EncodeRune(Head(s)) \o Bytes(Tail(s))

\* string(b): the bytes of a complete encoding are its character, any other
\* byte stays a byte
RECURSIVE StringOfBytes(_)
StringOfBytes(b) ==
    IF b = <<>> THEN <<>>
    ELSE IF \E c \in NonASCIIChars : HasPrefix(b, EncodeRune(c))
    THEN LET c == CHOOSE r \in NonASCIIChars : HasPrefix(b, EncodeRune(r))
         IN <<c>> \o StringOfBytes(SubSeq(b, Len(EncodeRune(c)) + 1, Len(b)))
    ELSE <<Head(b)>> \o StringOfBytes(Tail(b))

\* s[i:] cut to its first n bytes, i counting characters from 1
BytesFrom(s, i, n) ==
    LET b == Bytes(SubSeq(s, i, Len(s)))
    IN StringOfBytes(SubSeq(b, 1, Min(n, Len(b))))

hexDigits == <<"0", "1", "2", "3", "4", "5", "6", "7", "8", "9", "a", "b", "c", "d", "e", "f">>
hexUpper == <<"A", "B", "C", "D", "E", "F">>
ishex(c) == c \in DecimalDigits \cup {hexDigits[i] : i \in 11..16} \cup {hexUpper[i] : i \in 1..6}
unhex(c) ==
    IF \E i \in 1..16 : hexDigits[i] = c
    THEN (CHOOSE i \in 1..16 : hexDigits[i] = c) - 1
    ELSE (CHOOSE i \in 1..6 : hexUpper[i] = c) + 9

\* strconv.Quote: the string between double quotes, with its quotes,
\* backslashes, unprintable characters and stray bytes escaped
QuoteChar(c) ==
    CASE c = "\"" -> <<"\\", "\"">>
      [] c = "\\" -> <<"\\", "\\">>
      [] c = "U+0000" -> <<"\\", "x", "0", "0">>
      [] c = "U+0001" -> <<"\\", "x", "0", "1">>
      [] c = "U+0002" -> <<"\\", "x", "0", "2">>
      [] c = "U+0003" -> <<"\\", "x", "0", "3">>
      [] c = "U+0004" -> <<"\\", "x", "0", "4">>
      [] c = "U+0005" -> <<"\\", "x", "0", "5">>
      [] c = "U+0006" -> <<"\\", "x", "0", "6">>
      [] c = "U+0007" -> <<"\\", "a">>
      [] c = "U+0008" -> <<"\\", "b">>
      [] c = "\t" -> <<"\\", "t">>
      [] c = "\n" -> <<"\\", "n">>
      [] c = "U+000B" -> <<"\\", "v">>
      [] c = "\f" -> <<"\\", "f">>
      [] c = "\r" -> <<"\\", "r">>
      [] c = "U+000E" -> <<"\\", "x", "0", "e">>
      [] c = "U+000F" -> <<"\\", "x", "0", "f">>
      [] c = "U+0010" -> <<"\\", "x", "1", "0">>
      [] c = "U+0011" -> <<"\\", "x", "1", "1">>
      [] c = "U+0012" -> <<"\\", "x", "1", "2">>
      [] c = "U+0013" -> <<"\\", "x", "1", "3">>
      [] c = "U+0014" -> <<"\\", "x", "1", "4">>
      [] c = "U+0015" -> <<"\\", "x", "1", "5">>
      [] c = "U+0016" -> <<"\\", "x", "1", "6">>
      [] c = "U+0017" -> <<"\\", "x", "1", "7">>
      [] c = "U+0018" -> <<"\\", "x", "1", "8">>
      [] c = "U+0019" -> <<"\\", "x", "1", "9">>
      [] c = "U+001A" -> <<"\\", "x", "1", "a">>
      [] c = "U+001B" -> <<"\\", "x", "1", "b">>
      [] c = "U+001C" -> <<"\\", "x", "1", "c">>
      [] c = "U+001D" -> <<"\\", "x", "1", "d">>
      [] c = "U+001E" -> <<"\\", "x", "1", "e">>
      [] c = "U+001F" -> <<"\\", "x", "1", "f">>
      [] c = "U+007F" -> <<"\\", "x", "7", "f">>
      [] c = "U+0085" -> <<"\\", "u", "0", "0", "8", "5">>
      [] c = "U+00A0" -> <<"\\", "u", "0", "0", "a", "0">>
      [] c = "U+1680" -> <<"\\", "u", "1", "6", "8", "0">>
      [] c = "U+2000" -> <<"\\", "u", "2", "0", "0", "0">>
      [] c = "U+2001" -> <<"\\", "u", "2", "0", "0", "1">>
      [] c = "U+2002" -> <<"\\", "u", "2", "0", "0", "2">>
      [] c = "U+2003" -> <<"\\", "u", "2", "0", "0", "3">>
      [] c = "U+2004" -> <<"\\", "u", "2", "0", "0", "4">>
      [] c = "U+2005" -> <<"\\", "u", "2", "0", "0", "5">>
      [] c = "U+2006" -> <<"\\", "u", "2", "0", "0", "6">>
      [] c = "U+2007" -> <<"\\", "u", "2", "0", "0", "7">>
      [] c = "U+2008" -> <<"\\", "u", "2", "0", "0", "8">>
      [] c = "U+2009" -> <<"\\", "u", "2", "0", "0", "9">>
      [] c = "U+200A" -> <<"\\", "u", "2", "0", "0", "a">>
      [] c = "U+2028" -> <<"\\", "u", "2", "0", "2", "8">>
      [] c = "U+2029" -> <<"\\", "u", "2", "0", "2", "9">>
      [] c = "U+202F" -> <<"\\", "u", "2", "0", "2", "f">>
      [] c = "U+205F" -> <<"\\", "u", "2", "0", "5", "f">>
      [] c = "U+3000" -> <<"\\", "u", "3", "0", "0", "0">>
      [] c = "0x80" -> <<"\\", "x", "8", "0">>
      [] c = "0x81" -> <<"\\", "x", "8", "1">>
      [] c = "0x82" -> <<"\\", "x", "8", "2">>
      [] c = "0x83" -> <<"\\", "x", "8", "3">>
      [] c = "0x84" -> <<"\\", "x", "8", "4">>
      [] c = "0x85" -> <<"\\", "x", "8", "5">>
      [] c = "0x86" -> <<"\\", "x", "8", "6">>
      [] c = "0x87" -> <<"\\", "x", "8", "7">>
      [] c = "0x88" -> <<"\\", "x", "8", "8">>
      [] c = "0x89" -> <<"\\", "x", "8", "9">>
      [] c = "0x8A" -> <<"\\", "x", "8", "a">>
      [] c = "0x9A" -> <<"\\", "x", "9", "a">>
      [] c = "0x9F" -> <<"\\", "x", "9", "f">>
      [] c = "0xA0" -> <<"\\", "x", "a", "0">>
      [] c = "0xA8" -> <<"\\", "x", "a", "8">>
      [] c = "0xA9" -> <<"\\", "x", "a", "9">>
      [] c = "0xAF" -> <<"\\", "x", "a", "f">>
      [] c = "0xC2" -> <<"\\", "x", "c", "2">>
      [] c = "0xE1" -> <<"\\", "x", "e", "1">>
      [] c = "0xE2" -> <<"\\", "x", "e", "2">>
      [] c = "0xE3" -> <<"\\", "x", "e", "3">>
      [] OTHER -> <<c>>

RECURSIVE QuoteChars(_)
QuoteChars(s) == IF s = <<>> THEN <<>> ELSE QuoteChar(Head(s)) \o QuoteChars(Tail(s))

Quote(s) == <<"\"">> \o QuoteChars(s) \o <<"\"">>


\* strings.Index, strings.LastIndex (0 when absent), strings.Count of one
\* character, and strings.Index of a substring
IndexFrom(s, c, i) ==
    IF \E j \in i..Len(s) : s[j] = c
    THEN CHOOSE j \in i..Len(s) : s[j] = c /\ \A k \in i..(j - 1) : s[k] # c
    ELSE 0
Index(s, c) == IndexFrom(s, c, 1)
LastIndex(s, c) ==
    IF \E j \in 1..Len(s) : s[j] = c
    THEN CHOOSE j \in 1..Len(s) : s[j] = c /\ \A k \in (j + 1)..Len(s) : s[k] # c
    ELSE 0
Count(s, c) == Cardinality({j \in 1..Len(s) : s[j] = c})
IndexOfString(s, sub) ==
    LET at(j) == SubSeq(s, j, j + Len(sub) - 1) = sub
        starts == {j \in 1..(Len(s) - Len(sub) + 1) : at(j)}
    IN IF starts = {} THEN 0 ELSE CHOOSE j \in starts : \A k \in starts : j <= k

\* s[i:], 1-based
SliceFrom(s, i) == SubSeq(s, i, Len(s))
\* strings.Cut at a character: the parts before and after its first occurrence
CutBefore(s, c) == IF Index(s, c) = 0 THEN s ELSE SubSeq(s, 1, Index(s, c) - 1)
CutAfter(s, c) == IF Index(s, c) = 0 THEN <<>> ELSE SliceFrom(s, Index(s, c) + 1)

UrlErr(text) == [type |-> "error", msg |-> text]
EscapeError(s) == UrlErr(<<"invalid URL escape ">> \o Quote(s))
InvalidHostError(s) ==
    UrlErr(<<"invalid character ">> \o Quote(s) \o <<" in host name">>)

encodePath == "encodePath"
encodeHost == "encodeHost"
encodeZone == "encodeZone"
encodeUserPassword == "encodeUserPassword"
encodeFragment == "encodeFragment"

\* shouldEscape(c, encodeHost) for a character and for the value of a byte
HostChars ==
    Letters \cup DecimalDigits
    \cup {"!", "$", "&", "'", "(", ")", "*", "+", ",", ";", "=", ":", "[", "]",
          "<", ">", "\""}
    \cup {"-", "_", ".", "~"}
HostBytes ==
    (48..57) \cup (65..90) \cup (97..122)
    \cup {33, 36, 38, 39, 40, 41, 42, 43, 44, 59, 61, 58, 91, 93, 60, 62, 34}
    \cup {45, 95, 46, 126}

\* unescape(s, encoding), from position i on: the error it returns
RECURSIVE unescapeFrom(_, _, _)
unescapeFrom(s, i, encoding) ==
    IF i > Len(s) THEN NilErr
    ELSE IF s[i] = "%"
    \* No byte of a character outside ASCII is a hex digit, so the test on
    \* the two characters after the '%' is the test on the two bytes; the
    \* error holds the '%' and the two bytes after it.
    THEN IF i + 2 > Len(s) \/ ~ishex(s[i + 1]) \/ ~ishex(s[i + 2])
         THEN EscapeError(BytesFrom(s, i, 3))
         ELSE IF /\ encoding = encodeHost
                 /\ unhex(s[i + 1]) < 8
                 /\ SubSeq(s, i, i + 2) # <<"%", "2", "5">>
         THEN EscapeError(SubSeq(s, i, i + 2))
         ELSE IF /\ encoding = encodeZone
                 /\ SubSeq(s, i, i + 2) # <<"%", "2", "5">>
                 /\ unhex(s[i + 1]) * 16 + unhex(s[i + 2]) # 32
                 /\ unhex(s[i + 1]) * 16 + unhex(s[i + 2]) \notin HostBytes
         THEN EscapeError(SubSeq(s, i, i + 2))
         ELSE unescapeFrom(s, i + 3, encoding)
    ELSE IF /\ encoding \in {encodeHost, encodeZone}
            /\ s[i] \notin NonASCII
            /\ s[i] \notin HostChars
    THEN InvalidHostError(<<s[i]>>)
    ELSE unescapeFrom(s, i + 1, encoding)

unescape(s, encoding) == unescapeFrom(s, 1, encoding)

validOptionalPort(port) ==
    \/ port = <<>>
    \/ /\ port[1] = ":"
       /\ \A j \in 2..Len(port) : port[j] \in DecimalDigits

InvalidPort(colonPort) ==
    UrlErr(<<"invalid port ">> \o Quote(colonPort) \o <<" after host">>)

\* the first of two errors that is not nil
OrElse(e1, e2) == IF e1 # NilErr THEN e1 ELSE e2

parseHost(host) ==
    IF HasPrefix(host, <<"[">>)
    THEN LET i == LastIndex(host, "]")
             zone == IndexOfString(SubSeq(host, 1, i - 1), <<"%", "2", "5">>)
         IN IF i = 0 THEN UrlErr(<<"missing ']' in host">>)
            ELSE IF ~validOptionalPort(SliceFrom(host, i + 1))
            THEN InvalidPort(SliceFrom(host, i + 1))
            ELSE IF zone > 0
            THEN OrElse(unescape(SubSeq(host, 1, zone - 1), encodeHost),
                 OrElse(unescape(SubSeq(host, zone, i - 1), encodeZone),
                        unescape(SliceFrom(host, i), encodeHost)))
            ELSE unescape(host, encodeHost)
    ELSE IF LastIndex(host, ":") # 0
            /\ ~validOptionalPort(SliceFrom(host, LastIndex(host, ":")))
    THEN InvalidPort(SliceFrom(host, LastIndex(host, ":")))
    ELSE unescape(host, encodeHost)

validUserinfo(s) ==
    \A j \in 1..Len(s) :
        s[j] \in Letters \cup DecimalDigits
                 \cup {"-", ".", "_", ":", "~", "!", "$", "&", "'", "(", ")",
                       "*", "+", ",", ";", "=", "%", "@"}

parseAuthority(authority) ==
    LET i == LastIndex(authority, "@")
        userinfo == SubSeq(authority, 1, i - 1)
        hostErr == parseHost(SliceFrom(authority, i + 1))
    IN IF hostErr # NilErr THEN hostErr
       ELSE IF i = 0 THEN NilErr
       ELSE IF ~validUserinfo(userinfo) THEN UrlErr(<<"net/url: invalid userinfo">>)
       ELSE IF Index(userinfo, ":") = 0 THEN unescape(userinfo, encodeUserPassword)
       ELSE OrElse(unescape(CutBefore(userinfo, ":"), encodeUserPassword),
                   unescape(CutAfter(userinfo, ":"), encodeUserPassword))

\* getScheme: the scheme, the rest and the error
RECURSIVE getSchemeFrom(_, _)
getSchemeFrom(rawURL, i) ==
    LET none == [scheme |-> <<>>, path |-> rawURL, err |-> NilErr]
    IN IF i > Len(rawURL) THEN none
       ELSE IF rawURL[i] \in Letters THEN getSchemeFrom(rawURL, i + 1)
       ELSE IF rawURL[i] \in DecimalDigits \cup {"+", "-", "."}
       THEN IF i = 1 THEN none ELSE getSchemeFrom(rawURL, i + 1)
       ELSE IF rawURL[i] = ":"
       THEN IF i = 1
            THEN [scheme |-> <<>>, path |-> <<>>,
                  err |-> UrlErr(<<"missing protocol scheme">>)]
            ELSE [scheme |-> SubSeq(rawURL, 1, i - 1), path |-> SliceFrom(rawURL, i + 1),
                  err |-> NilErr]
       ELSE none

getScheme(rawURL) == getSchemeFrom(rawURL, 1)

stringContainsCTLByte(s) == \E j \in 1..Len(s) : s[j] \in ControlBytes

\* parse(rawURL, false) once the scheme is split off: rest loses its query,
\* then its authority, and what is left is the path
parseRest(scheme, withQuery) ==
    LET rest == IF HasSuffix(withQuery, <<"?">>) /\ Count(withQuery, "?") = 1
                THEN SubSeq(withQuery, 1, Len(withQuery) - 1)
                ELSE CutBefore(withQuery, "?")
        hasAuthority ==
            /\ scheme # <<>> \/ ~HasPrefix(rest, <<"/", "/", "/">>)
            /\ HasPrefix(rest, <<"/", "/">>)
        afterSlashes == SliceFrom(rest, 3)
        authority == CutBefore(afterSlashes, "/")
        path == IF Index(afterSlashes, "/") = 0 THEN <<>>
                ELSE SliceFrom(afterSlashes, Index(afterSlashes, "/"))
    IN IF ~HasPrefix(rest, <<"/">>) /\ scheme # <<>> THEN NilErr
       ELSE IF ~HasPrefix(rest, <<"/">>) /\ Index(CutBefore(rest, "/"), ":") # 0
       THEN UrlErr(<<"first path segment in URL cannot contain colon">>)
       ELSE IF hasAuthority
       THEN OrElse(parseAuthority(authority), unescape(path, encodePath))
       ELSE unescape(rest, encodePath)

parse(rawURL) ==
    IF stringContainsCTLByte(rawURL)
    THEN UrlErr(<<"net/url: invalid control character in URL">>)
    ELSE IF rawURL = <<"*">> THEN NilErr
    ELSE IF getScheme(rawURL).err # NilErr THEN getScheme(rawURL).err
    ELSE parseRest(getScheme(rawURL).scheme, getScheme(rawURL).path)

\* url.Error of the operation "parse"
UrlError(u, e) ==
    [type |-> "url.Error", msg |-> <<"parse ">> \o Quote(u) \o <<": ">> \o e.msg]

\* url.Parse: the fragment is cut off and parsed after the rest
UrlParse(rawURL) ==
    LET u == CutBefore(rawURL, "#")
        frag == CutAfter(rawURL, "#")
    IN IF parse(u) # NilErr THEN UrlError(u, parse(u))
       ELSE IF frag = <<>> THEN NilErr
       ELSE IF unescape(frag, encodeFragment) # NilErr
       THEN UrlError(rawURL, unescape(frag, encodeFragment))
       ELSE NilErr

\* strings.Join
RECURSIVE StringsJoin(_, _)
StringsJoin(elems, sep) ==
    IF Len(elems) = 0 THEN <<>>
    ELSE IF Len(elems) = 1 THEN <<elems[1]>>
    ELSE <<elems[1], sep>> \o StringsJoin(Tail(elems), sep)

ContainsAnything(elems, v) == TRUE

\* util.Contains
Contains(elems, v) == \E i \in 1..Len(elems) : elems[i] = v

validAzAccessTier == <<"", "Archive", "Hot", "Cool">>

Result(c, e) == [cfg |-> c, err |-> e]

EncryptResultUntyped(c, field, enc, text) ==
    Result([c EXCEPT ![field] = enc.secret],
           IF enc.err # NilErr THEN Errorf(text, enc.err) ELSE NilErr)

\* c with the Secret of the Encrypt call enc in field, and the error of the call
EncryptResult(c, field, enc, text) ==
    Result([c EXCEPT ![field] = enc.secret],
           IF enc.err # NilErr THEN NewValidationError(text, enc.err) ELSE NilErr)

EncryptFieldSkipped(c, field, data, kmsFails, text) == Result(c, NilErr)

\* SetAdditionalData and Encrypt on a Secret of the config (289-293, 373-377,
\* 530-533, 536-539, 661-664)
EncryptField(c, field, data, kmsFails, text) ==
    EncryptResult(c, field, Encrypt(SetAdditionalData(c[field], data), kmsFails), text)

(***************************************************************************)
(* The key prefix normalisation of validate (340-348, 425-433, 615-623):   *)
(* a prefix starting with "/" is rejected, any other non-empty prefix is   *)
(* cleaned and ends with "/".                                              *)
(***************************************************************************)

Slash == <<"/">>

KeyPrefixNoSuffix(kp) ==
    IF kp = <<>> THEN [kp |-> kp, err |-> NilErr]
    ELSE IF HasPrefix(kp, Slash)
         THEN [kp |-> kp, err |-> ErrorsNew("key_prefix cannot start with /")]
    ELSE [kp |-> Clean(kp), err |-> NilErr]

validateKeyPrefix(kp) ==
    IF kp = <<>> THEN [kp |-> kp, err |-> NilErr]
    ELSE IF HasPrefix(kp, Slash)
         THEN [kp |-> kp, err |-> ErrorsNew("key_prefix cannot start with /")]
    ELSE LET cleaned == Clean(kp)
         IN [kp |-> IF HasSuffix(cleaned, Slash) THEN cleaned ELSE cleaned \o Slash,
             err |-> NilErr]

(***************************************************************************)
(* S3FsConfig (187-352)                                                    *)
(***************************************************************************)

S3checkCredentialsOneWay(c) ==
    IF c.AccessKey = "" /\ ~IsEmpty(c.AccessSecret)
    THEN ErrorsNewAbout("access_key", " cannot be empty with access_secret not empty")
    ELSE IF IsEncrypted(c.AccessSecret) /\ ~IsValid(c.AccessSecret)
    THEN ErrorsNew("invalid encrypted access_secret")
    ELSE IF ~IsEmpty(c.AccessSecret) /\ ~IsValidInput(c.AccessSecret)
    THEN ErrorsNew("invalid access_secret")
    ELSE NilErr

S3checkCredentials(c) ==
    IF c.AccessKey = "" /\ ~IsEmpty(c.AccessSecret)
    THEN ErrorsNewAbout("access_key", " cannot be empty with access_secret not empty")
    ELSE IF IsEmpty(c.AccessSecret) /\ c.AccessKey # ""
    THEN ErrorsNewAbout("access_secret", " cannot be empty with access_key not empty")
    ELSE IF IsEncrypted(c.AccessSecret) /\ ~IsValid(c.AccessSecret)
    THEN ErrorsNew("invalid encrypted access_secret")
    ELSE IF ~IsEmpty(c.AccessSecret) /\ ~IsValidInput(c.AccessSecret)
    THEN ErrorsNew("invalid access_secret")
    ELSE NilErr

S3checkPartSizeOnly(c) ==
    IF c.UploadPartSize # 0 /\ (c.UploadPartSize < 5 \/ c.UploadPartSize > 5000)
    THEN ErrorsNew("upload_part_size cannot be != 0, lower than 5 (MB) or greater than 5000 (MB)")
    ELSE IF c.DownloadPartSize # 0 /\ (c.DownloadPartSize < 5 \/ c.DownloadPartSize > 5000)
    THEN ErrorsNew("download_part_size cannot be != 0, lower than 5 (MB) or greater than 5000 (MB)")
    ELSE NilErr

S3checkPartSizeAndConcurrency(c) ==
    IF c.UploadPartSize # 0 /\ (c.UploadPartSize < 5 \/ c.UploadPartSize > 5000)
    THEN ErrorsNew("upload_part_size cannot be != 0, lower than 5 (MB) or greater than 5000 (MB)")
    ELSE IF c.UploadConcurrency < 0 \/ c.UploadConcurrency > 64
    THEN Errorf("invalid upload concurrency: ", ErrorsNew(ToString(c.UploadConcurrency)))
    ELSE IF c.DownloadPartSize # 0 /\ (c.DownloadPartSize < 5 \/ c.DownloadPartSize > 5000)
    THEN ErrorsNew("download_part_size cannot be != 0, lower than 5 (MB) or greater than 5000 (MB)")
    ELSE IF c.DownloadConcurrency < 0 \/ c.DownloadConcurrency > 64
    THEN Errorf("invalid download concurrency: ", ErrorsNew(ToString(c.DownloadConcurrency)))
    ELSE NilErr

S3validate(c) ==
    LET c1 == IF IsNil(c.AccessSecret)
              THEN [c EXCEPT !.AccessSecret = NewEmptySecret] ELSE c
        cred == S3checkCredentials(c1)
        kp == validateKeyPrefix(c1.KeyPrefix)
        c2 == [c1 EXCEPT !.KeyPrefix = kp.kp]
        c3 == [c2 EXCEPT !.StorageClass = TrimSpace(c2.StorageClass),
                         !.ACL = TrimSpace(c2.ACL)]
    IN IF c1.Bucket = "" THEN Result(c1, ErrorsNew("bucket cannot be empty"))
       ELSE IF c1.Endpoint = "" /\ c1.Region = ""
       THEN Result(c1, ErrorsNew("region cannot be empty"))
       ELSE IF cred # NilErr THEN Result(c1, cred)
       ELSE IF kp.err # NilErr THEN Result(c1, kp.err)
       ELSE Result(c3, S3checkPartSizeAndConcurrency(c3))

S3encryptCredentials(v, data, kmsFail) ==
    IF v.err # NilErr
    THEN Result(v.cfg, NewValidationError("could not validate s3config: ", v.err))
    ELSE IF IsPlain(v.cfg.AccessSecret)
    THEN EncryptField(v.cfg, "AccessSecret", data, kmsFail = 1,
                      "could not encrypt s3 access secret: ")
    ELSE Result(v.cfg, NilErr)

S3ValidateAndEncryptCredentials(c, data, kmsFail) ==
    S3encryptCredentials(S3validate(c), data, kmsFail)

S3areMultipartFieldsEqual(c, o) ==
    /\ c.UploadPartSize = o.UploadPartSize
    /\ c.UploadConcurrency = o.UploadConcurrency
    /\ c.DownloadConcurrency = o.DownloadConcurrency
    /\ c.DownloadPartSize = o.DownloadPartSize
    /\ c.DownloadPartMaxTime = o.DownloadPartMaxTime
    /\ c.UploadPartMaxTime = o.UploadPartMaxTime

\* nil Secrets are replaced by empty ones before the comparison
OrEmpty(s) == IF IsNil(s) THEN NewEmptySecret ELSE s

S3isSecretEqual(c, o) == SecretIsEqual(OrEmpty(c.AccessSecret), OrEmpty(o.AccessSecret))

S3fieldsEqualNoEndpoint(c, o) ==
    /\ c.Bucket = o.Bucket
    /\ c.KeyPrefix = o.KeyPrefix
    /\ c.Region = o.Region
    /\ c.AccessKey = o.AccessKey
    /\ c.RoleARN = o.RoleARN
    /\ c.StorageClass = o.StorageClass
    /\ c.ACL = o.ACL
    /\ S3areMultipartFieldsEqual(c, o)
    /\ c.ForcePathStyle = o.ForcePathStyle

\* the comparisons of isEqual that precede isSecretEqual (201-231)
S3fieldsEqual(c, o) ==
    /\ c.Bucket = o.Bucket
    /\ c.KeyPrefix = o.KeyPrefix
    /\ c.Region = o.Region
    /\ c.AccessKey = o.AccessKey
    /\ c.RoleARN = o.RoleARN
    /\ c.Endpoint = o.Endpoint
    /\ c.StorageClass = o.StorageClass
    /\ c.ACL = o.ACL
    /\ S3areMultipartFieldsEqual(c, o)
    /\ c.ForcePathStyle = o.ForcePathStyle

S3isEqual(c, o) == S3fieldsEqual(c, o) /\ S3isSecretEqual(c, o)

\* the receiver after isEqual: its nil Secret is replaced when reached
S3afterIsEqual(c, o) ==
    IF S3fieldsEqual(c, o) THEN [c EXCEPT !.AccessSecret = OrEmpty(@)] ELSE c

S3isSameResource(c, o) ==
    /\ c.Bucket = o.Bucket
    /\ c.Endpoint = o.Endpoint
    /\ c.Region = o.Region

(***************************************************************************)
(* GCSFsConfig (354-449)                                                   *)
(***************************************************************************)

GCSexplicitCredentialsWhenOne(c) == c.AutomaticCredentials = 1

\* the mode in which validate checks the credentials as input (437)
GCSexplicitCredentials(c) == c.AutomaticCredentials = 0

GCSvalidate(c) ==
    LET c1 == IF IsNil(c.Credentials) \/ c.AutomaticCredentials = 1
              THEN [c EXCEPT !.Credentials = NewEmptySecret] ELSE c
        kp == validateKeyPrefix(c1.KeyPrefix)
        c2 == [c1 EXCEPT !.KeyPrefix = kp.kp]
        c3 == [c2 EXCEPT !.StorageClass = TrimSpace(c2.StorageClass),
                         !.ACL = TrimSpace(c2.ACL),
                         !.UploadPartSize = IF @ < 0 THEN 0 ELSE @,
                         !.UploadPartMaxTime = IF @ < 0 THEN 0 ELSE @]
    IN IF c1.Bucket = "" THEN Result(c1, ErrorsNew("bucket cannot be empty"))
       ELSE IF kp.err # NilErr THEN Result(c1, kp.err)
       ELSE IF IsEncrypted(c2.Credentials) /\ ~IsValid(c2.Credentials)
       THEN Result(c2, ErrorsNew("invalid encrypted credentials"))
       ELSE IF GCSexplicitCredentials(c2) /\ ~IsValidInput(c2.Credentials)
       THEN Result(c2, ErrorsNew("invalid credentials"))
       ELSE Result(c3, NilErr)

GCSencryptCredentials(v, data, kmsFail) ==
    IF v.err # NilErr
    THEN Result(v.cfg, NewValidationError("could not validate GCS config: ", v.err))
    ELSE IF IsPlain(v.cfg.Credentials)
    THEN EncryptField(v.cfg, "Credentials", data, kmsFail = 1,
                      "could not encrypt GCS credentials: ")
    ELSE Result(v.cfg, NilErr)

GCSValidateAndEncryptCredentials(c, data, kmsFail) ==
    GCSencryptCredentials(GCSvalidate(c), data, kmsFail)

\* the comparisons of isEqual that precede the Secrets (383-403)
GCSfieldsEqual(c, o) ==
    /\ c.Bucket = o.Bucket
    /\ c.KeyPrefix = o.KeyPrefix
    /\ c.AutomaticCredentials = o.AutomaticCredentials
    /\ c.StorageClass = o.StorageClass
    /\ c.ACL = o.ACL
    /\ c.UploadPartSize = o.UploadPartSize
    /\ c.UploadPartMaxTime = o.UploadPartMaxTime

GCSisEqual(c, o) ==
    /\ GCSfieldsEqual(c, o)
    /\ SecretIsEqual(OrEmpty(c.Credentials), OrEmpty(o.Credentials))

GCSafterIsEqual(c, o) ==
    IF GCSfieldsEqual(c, o) THEN [c EXCEPT !.Credentials = OrEmpty(@)] ELSE c

GCSisSameResource(c, o) == c.Bucket = o.Bucket

(***************************************************************************)
(* AzBlobFsConfig (451-631)                                                *)
(***************************************************************************)

AzcheckCredentialsAnyName(c) ==
    IF IsPlain(c.SASURL) THEN UrlParse(GetPayload(c.SASURL))
    ELSE IF IsEncrypted(c.SASURL) /\ ~IsValid(c.SASURL)
    THEN ErrorsNew("invalid encrypted sas_url")
    ELSE IF ~IsEmpty(c.SASURL) THEN NilErr
    ELSE IF ~IsValidInput(c.AccountKey)
    THEN ErrorsNew("credentials cannot be empty or invalid")
    ELSE IF IsEncrypted(c.AccountKey) /\ ~IsValid(c.AccountKey)
    THEN ErrorsNew("invalid encrypted account_key")
    ELSE NilErr

AzcheckCredentials(c) ==
    IF IsPlain(c.SASURL) THEN UrlParse(GetPayload(c.SASURL))
    ELSE IF IsEncrypted(c.SASURL) /\ ~IsValid(c.SASURL)
    THEN ErrorsNew("invalid encrypted sas_url")
    ELSE IF ~IsEmpty(c.SASURL) THEN NilErr
    ELSE IF c.AccountName = "" \/ ~IsValidInput(c.AccountKey)
    THEN ErrorsNew("credentials cannot be empty or invalid")
    ELSE IF IsEncrypted(c.AccountKey) /\ ~IsValid(c.AccountKey)
    THEN ErrorsNew("invalid encrypted account_key")
    ELSE NilErr

AzcheckPartSizeAndConcurrency(c) ==
    IF c.UploadPartSize < 0 \/ c.UploadPartSize > 100
    THEN Errorf("invalid upload part size: ", ErrorsNew(ToString(c.UploadPartSize)))
    ELSE IF c.UploadConcurrency < 0 \/ c.UploadConcurrency > 64
    THEN Errorf("invalid upload concurrency: ", ErrorsNew(ToString(c.UploadConcurrency)))
    ELSE IF c.DownloadPartSize < 0 \/ c.DownloadPartSize > 100
    THEN Errorf("invalid download part size: ", ErrorsNew(ToString(c.DownloadPartSize)))
    ELSE IF c.DownloadConcurrency < 0 \/ c.DownloadConcurrency > 64
    THEN Errorf("invalid upload concurrency: ", ErrorsNew(ToString(c.DownloadConcurrency)))
    ELSE NilErr

Azvalidate(c) ==
    LET c1 == [c EXCEPT !.AccountKey = OrEmpty(@), !.SASURL = OrEmpty(@)]
        cred == AzcheckCredentials(c1)
        kp == validateKeyPrefix(c1.KeyPrefix)
        c2 == [c1 EXCEPT !.KeyPrefix = kp.kp]
        parts == AzcheckPartSizeAndConcurrency(c2)
    IN IF IsEmpty(c1.SASURL) /\ c1.Container = ""
       THEN Result(c1, ErrorsNew("container cannot be empty"))
       ELSE IF cred # NilErr THEN Result(c1, cred)
       ELSE IF kp.err # NilErr THEN Result(c1, kp.err)
       ELSE IF parts # NilErr THEN Result(c2, parts)
       ELSE IF ~Contains(validAzAccessTier, c2.AccessTier)
       THEN Result(c2, [type |-> "error",
                        msg |-> <<"invalid access tier ", "\"", c2.AccessTier, "\"",
                                  ", valid values: ", "\"", "''">>
                                \o StringsJoin(validAzAccessTier, ", ") \o <<"\"">>])
       ELSE Result(c2, NilErr)

\* the SAS URL, once the account key is done (535-541)
AzencryptSASURL(r, data, kmsFails) ==
    IF r.err # NilErr THEN r
    ELSE IF IsPlain(r.cfg.SASURL)
    THEN EncryptField(r.cfg, "SASURL", data, kmsFails,
                      "could not encrypt Azure blob SAS URL: ")
    ELSE r

\* the SAS URL is the second Encrypt call when the account key was the first
AzencryptCredentials(v, data, kmsFail) ==
    IF v.err # NilErr
    THEN Result(v.cfg, NewValidationError("could not validate Azure Blob config: ", v.err))
    ELSE IF IsPlain(v.cfg.AccountKey)
    THEN AzencryptSASURL(EncryptField(v.cfg, "AccountKey", data, kmsFail = 1,
                                      "could not encrypt Azure blob account key: "),
                         data, kmsFail = 2)
    ELSE AzencryptSASURL(v, data, kmsFail = 1)

AzValidateAndEncryptCredentials(c, data, kmsFail) ==
    AzencryptCredentials(Azvalidate(c), data, kmsFail)

AzisSecretEqual(c, o) == SecretIsEqual(OrEmpty(c.AccountKey), OrEmpty(o.AccountKey))

\* an empty SAS URL is replaced by a new empty Secret (481-486)
FreshIfEmpty(s) == IF IsEmpty(s) THEN NewEmptySecret ELSE s

\* the comparisons of isEqual that precede isSecretEqual (472-510)
AzfieldsEqual(c, o) ==
    /\ c.Container = o.Container
    /\ c.AccountName = o.AccountName
    /\ c.Endpoint = o.Endpoint
    /\ SecretIsEqual(FreshIfEmpty(c.SASURL), FreshIfEmpty(o.SASURL))
    /\ c.KeyPrefix = o.KeyPrefix
    /\ c.UploadPartSize = o.UploadPartSize
    /\ c.UploadConcurrency = o.UploadConcurrency
    /\ c.DownloadPartSize = o.DownloadPartSize
    /\ c.DownloadConcurrency = o.DownloadConcurrency
    /\ c.UseEmulator = o.UseEmulator
    /\ c.AccessTier = o.AccessTier

AzisEqual(c, o) == AzfieldsEqual(c, o) /\ AzisSecretEqual(c, o)

AzafterIsEqual(c, o) ==
    LET c1 == IF c.Container = o.Container /\ c.AccountName = o.AccountName
                 /\ c.Endpoint = o.Endpoint
              THEN [c EXCEPT !.SASURL = FreshIfEmpty(@)] ELSE c
    IN IF AzfieldsEqual(c, o) THEN [c1 EXCEPT !.AccountKey = OrEmpty(@)] ELSE c1

AzisSameResourceWithContainer(c, o) ==
    /\ c.Container = o.Container
    /\ c.AccountName = o.AccountName
    /\ c.Endpoint = o.Endpoint
    /\ GetPayload(c.SASURL) = GetPayload(o.SASURL)

AzisSameResource(c, o) ==
    /\ c.AccountName = o.AccountName
    /\ c.Endpoint = o.Endpoint
    /\ GetPayload(c.SASURL) = GetPayload(o.SASURL)

(***************************************************************************)
(* CryptFsConfig (633-685)                                                 *)
(***************************************************************************)

Cryptvalidate(c) ==
    IF IsNil(c.Passphrase) \/ IsEmpty(c.Passphrase)
    THEN Result(c, ErrorsNew("invalid passphrase"))
    ELSE IF ~IsValidInput(c.Passphrase)
    THEN Result(c, ErrorsNew("passphrase cannot be empty or invalid"))
    ELSE IF IsEncrypted(c.Passphrase) /\ ~IsValid(c.Passphrase)
    THEN Result(c, ErrorsNew("invalid encrypted passphrase"))
    ELSE Result(c, NilErr)

CryptencryptCredentials(v, data, kmsFail) ==
    IF v.err # NilErr
    THEN Result(v.cfg, NewValidationError("could not validate Crypt fs config: ", v.err))
    ELSE IF IsPlain(v.cfg.Passphrase)
    THEN EncryptField(v.cfg, "Passphrase", data, kmsFail = 1,
                      "could not encrypt Crypt fs passphrase: ")
    ELSE Result(v.cfg, NilErr)

CryptValidateAndEncryptCredentials(c, data, kmsFail) ==
    CryptencryptCredentials(Cryptvalidate(c), data, kmsFail)

CryptisEqual(c, o) == SecretIsEqual(OrEmpty(c.Passphrase), OrEmpty(o.Passphrase))

CryptafterIsEqual(c, o) == [c EXCEPT !.Passphrase = OrEmpty(@)]

CryptisSameResource(c, o) == GetPayload(c.Passphrase) = GetPayload(o.Passphrase)

(***************************************************************************)
(* The configurations the methods are called on: a base configuration of   *)
(* a family with at most MaxDiff fields replaced by other values.          *)
(***************************************************************************)

MaxDiff == 1
MaxPathLen == 3

PathChars == {"a", "/", "."}
NamedPrefixes ==
    { <<"f","o","o","/","b","a","r">>, <<".">>, <<"a","/",".",".">>,
      <<"a","/","/","b","/">> }
KeyPrefixValues ==
    NamedPrefixes \cup UNION {[1..k -> PathChars] : k \in 1..MaxPathLen}

S1 == <<"s", "1">>
S2 == <<"s", "2">>
EncryptedSecret ==
    NewSecret(SecretStatusSecretBox, <<"enc">> \o S1 \o <<"u1">>, KeyOK, "u1")
SecretValues ==
    { NewEmptySecret,
      NewPlainSecret(S1), NewPlainSecret(S2), NewPlainSecret(<<>>),
      EncryptedSecret,
      NewSecret(SecretStatusSecretBox, <<"enc">> \o S1 \o <<"u1">>, "", "u1"),
      NewSecret("Unknown", S1, "", "") }
SASPayload == <<"h", "t", "t", "p", "s", ":", "/", "/", "s", "a", "s">>
URLPayloadValues ==
    { <<>>,
      <<"h", "t", "t", "p", "s", ":", "/", "/", "s", "a", "s">>,
      <<"%", "z", "z">>,
      <<":">>,
      <<"1", ":", "2">>,
      <<"%", "4">>,
      <<"/", "%", "z", "z">>,
      <<"h", "t", "t", "p", ":", "/", "/", "h", "/", "%", "z", "z">>,
      <<"*">>,
      <<"a", "/", "b", ":", "c">>,
      <<"/", "/", "h">>,
      <<"/", "/", "/", "p", ":", "q">>,
      <<"h", "t", "t", "p", ":", "/", "/", "h", ":", "8", "0", "/", "p", "?", "q", "=", "%", "z", "z", "#", "f">>,
      <<"h", "t", "t", "p", ":", "/", "/", "h", "/", "p", "#", "%", "z", "z">>,
      <<"h", "t", "t", "p", ":", "/", "/", "h", "/", "#", "%", "4">>,
      <<"h", "t", "t", "p", ":", "/", "/", "h", ":", "x", "/">>,
      <<"h", "t", "t", "p", ":", "/", "/", "h", ":", "/">>,
      <<"h", "t", "t", "p", ":", "/", "/", "[", ":", ":", "1", "]", ":", "8", "0", "/">>,
      <<"h", "t", "t", "p", ":", "/", "/", "[", ":", ":", "1", "/">>,
      <<"h", "t", "t", "p", ":", "/", "/", "[", ":", ":", "1", "]", "x", "/">>,
      <<"h", "t", "t", "p", ":", "/", "/", "[", "f", "e", "8", "0", ":", ":", "1", "%", "2", "5", "e", "n", "0", "]", "/">>,
      <<"h", "t", "t", "p", ":", "/", "/", "[", "f", "e", "8", "0", ":", ":", "1", "%", "2", "5", "%", "z", "z", "]", "/">>,
      <<"h", "t", "t", "p", ":", "/", "/", "[", "f", "e", "8", "0", ":", ":", "1", "%", "2", "5", "%", "2", "f", "]", "/">>,
      <<"h", "t", "t", "p", ":", "/", "/", "[", "f", "e", "8", "0", ":", ":", "1", "%", "2", "5", "%", "2", "0", "]", "/">>,
      <<"h", "t", "t", "p", ":", "/", "/", "u", ":", "p", "@", "h", "/">>,
      <<"h", "t", "t", "p", ":", "/", "/", "u", "%", "z", "z", "@", "h", "/">>,
      <<"h", "t", "t", "p", ":", "/", "/", "u", ":", "%", "z", "z", "@", "h", "/">>,
      <<"h", "t", "t", "p", ":", "/", "/", "u", " ", "v", "@", "h", "/">>,
      <<"h", "t", "t", "p", ":", "/", "/", "a", " ", "b", "/">>,
      <<"h", "t", "t", "p", ":", "/", "/", "h", "%", "4", "1", "/">>,
      <<"h", "t", "t", "p", ":", "/", "/", "h", "%", "2", "5", "/">>,
      <<"h", "t", "t", "p", ":", "/", "/", "h", "%", "e", "9", "/">>,
      <<"h", "t", "t", "p", ":", "/", "/", "U+00A0", "h", "/">>,
      <<"h", "t", "t", "p", ":", "/", "/", "u", "U+00A0", "@", "h", "/">>,
      <<"a", "\t", "b">>,
      <<"m", "a", "i", "l", "t", "o", ":", "%", "z", "z">>,
      <<"H", "T", "T", "P", ":", "x", " ", "y">>,
      <<"?", "%", "z", "z">>,
      <<"a", "?">>,
      <<"a", "?", "?">>,
      <<"1", "h", "t", "t", "p", ":", "/", "/", "%", "z", "z">>,
      <<"h", "t", "t", "p", ":", "/", "/", "%", "z", "z">>,
      <<"a", "#", "\t">>,
      <<"U+007F">>,
      <<"s", "1">>,
      <<"s", "2">>,
      <<"h", "t", "t", "p", ":", "/", "/", "h", "/", " ", "p">>,
      <<"@", ":">>,
      <<"/", "a", ":", "b">>,
      <<"h", "t", "t", "p", ":", "/", "/", "@", "/">>,
      <<"h", "t", "t", "p", ":", "/", "/", "h", "/", "%", "4", "1">>,
      <<"h", "t", "t", "p", ":", "/", "/", "[", "%", "z", "z", "]", "/">>,
      <<"h", "t", "t", "p", ":", "/", "/", "[", ":", ":", "1", "]", ":", "%", "4", "1", "/">>,
      <<"h", "t", "t", "p", ":", "/", "/", "h", "%">>,
      <<"%", "U+1680">>,
      <<"%", "4", "U+00A0">>,
      <<"%", "U+00A0", "x">>,
      <<"%", "U+00A0">>,
      <<"h", "t", "t", "p", ":", "/", "/", "h", "/", "%", "U+3000">>,
      <<"h", "t", "t", "p", ":", "/", "/", "%", "U+1680", "/">>,
      <<"h", "t", "t", "p", ":", "/", "/", "h", "/", "#", "%", "U+2028", "z">>,
      <<"h", "t", "t", "p", ":", "/", "/", "u", ":", "%", "4", "U+0085", "@", "h", "/">> }
SASURLValues == SecretValues \cup {NewPlainSecret(p) : p \in URLPayloadValues}

S3Bases ==
    LET withKey ==
            [family |-> "S3", Bucket |-> "b", KeyPrefix |-> <<>>, Region |-> "r",
             AccessKey |-> "ak", RoleARN |-> "", Endpoint |-> "",
             StorageClass |-> <<>>, ACL |-> <<>>, UploadPartSize |-> 0,
             UploadConcurrency |-> 0, DownloadPartSize |-> 0,
             DownloadConcurrency |-> 0, DownloadPartMaxTime |-> 0,
             UploadPartMaxTime |-> 0, ForcePathStyle |-> FALSE,
             AccessSecret |-> NewPlainSecret(S1)]
    IN {withKey,
        [withKey EXCEPT !.AccessKey = "", !.AccessSecret = NewEmptySecret],
        [withKey EXCEPT !.AccessSecret = NewEmptySecret],
        [withKey EXCEPT !.AccessKey = ""],
        [withKey EXCEPT !.UploadPartSize = 5, !.UploadConcurrency = 64,
                        !.DownloadPartSize = 5000, !.DownloadConcurrency = 1]}

GCSBases ==
    LET withCredentials ==
            [family |-> "GCS", Bucket |-> "b", KeyPrefix |-> <<>>,
             AutomaticCredentials |-> 0, StorageClass |-> <<>>, ACL |-> <<>>,
             UploadPartSize |-> 0, UploadPartMaxTime |-> 0,
             Credentials |-> NewPlainSecret(S1)]
    IN {withCredentials,
        [withCredentials EXCEPT !.AutomaticCredentials = 1,
                                !.Credentials = NewEmptySecret]}

AzBases ==
    LET withKey ==
            [family |-> "AzBlob", Container |-> "c", AccountName |-> "n",
             Endpoint |-> "", KeyPrefix |-> <<>>, UploadPartSize |-> 0,
             UploadConcurrency |-> 0, DownloadPartSize |-> 0,
             DownloadConcurrency |-> 0, UseEmulator |-> FALSE, AccessTier |-> "",
             AccountKey |-> NewPlainSecret(S1), SASURL |-> NewEmptySecret]
    IN {withKey,
        [withKey EXCEPT !.Container = "", !.AccountName = "",
                        !.AccountKey = NewEmptySecret,
                        !.SASURL = NewPlainSecret(SASPayload)]}

CryptBases == {[family |-> "Crypt", Passphrase |-> NewPlainSecret(S1)]}

Bases == S3Bases \cup GCSBases \cup AzBases \cup CryptBases

Spaced ==
    { <<" ", "s", " ">>, <<"s">>, <<"\t", "s">>, <<"s", "\n">>,
      <<"U+00A0", "s">>, <<" ", "\t", " ", "s", " ", "\r", "\n">>,
      <<"U+000B", "s", " ", "s", "U+3000">>, <<" ", "\f">> }
PartSizes == {-1, 4, 5, 100, 101, 5000, 5001}
Concurrencies == {-1, 64, 65}

\* The other values of each field; nilToo adds the nil Secret.
Alternatives(family, prefixes, nilToo) ==
    LET nil == IF nilToo THEN {NilSecret} ELSE {}
    IN CASE family = "S3" ->
            [Bucket |-> {"", "b2"}, KeyPrefix |-> prefixes, Region |-> {"", "r2"},
             AccessKey |-> {"", "ak2"}, RoleARN |-> {"role"}, Endpoint |-> {"e"},
             StorageClass |-> Spaced, ACL |-> Spaced,
             UploadPartSize |-> PartSizes, UploadConcurrency |-> Concurrencies,
             DownloadPartSize |-> PartSizes, DownloadConcurrency |-> Concurrencies,
             DownloadPartMaxTime |-> {1}, UploadPartMaxTime |-> {1},
             ForcePathStyle |-> {TRUE}, AccessSecret |-> SecretValues \cup nil]
         [] family = "GCS" ->
            [Bucket |-> {"", "b2"}, KeyPrefix |-> prefixes,
             AutomaticCredentials |-> {0, 1, 2}, StorageClass |-> Spaced,
             ACL |-> Spaced, UploadPartSize |-> {-1, 1},
             UploadPartMaxTime |-> {-1, 1}, Credentials |-> SecretValues \cup nil]
         [] family = "AzBlob" ->
            [Container |-> {"", "c2"}, AccountName |-> {"", "n2"},
             Endpoint |-> {"e"}, KeyPrefix |-> prefixes,
             UploadPartSize |-> PartSizes, UploadConcurrency |-> Concurrencies,
             DownloadPartSize |-> PartSizes, DownloadConcurrency |-> Concurrencies,
             UseEmulator |-> {TRUE}, AccessTier |-> {"Archive", "Hot", "Cool", "Warm"},
             AccountKey |-> SecretValues \cup nil, SASURL |-> SASURLValues \cup nil]
         [] family = "Crypt" ->
            [Passphrase |-> SecretValues \cup nil]

\* c with one field replaced
Replaced(c, prefixes, nilToo) ==
    LET alts == Alternatives(c.family, prefixes, nilToo)
    IN UNION {{[c EXCEPT ![f] = v] : v \in alts[f]} : f \in DOMAIN alts}

RECURSIVE Variants(_, _, _, _)
Variants(cs, prefixes, nilToo, n) ==
    IF n = 0 THEN cs
    ELSE LET prev == Variants(cs, prefixes, nilToo, n - 1)
         IN prev \cup UNION {Replaced(c, prefixes, nilToo) : c \in prev}

(***************************************************************************)
(* The methods of a configuration, by family.                              *)
(***************************************************************************)

validate(c) ==
    CASE c.family = "S3" -> S3validate(c)
      [] c.family = "GCS" -> GCSvalidate(c)
      [] c.family = "AzBlob" -> Azvalidate(c)
      [] c.family = "Crypt" -> Cryptvalidate(c)

ValidateAndEncryptCredentials(c, data, kmsFail) ==
    CASE c.family = "S3" -> S3ValidateAndEncryptCredentials(c, data, kmsFail)
      [] c.family = "GCS" -> GCSValidateAndEncryptCredentials(c, data, kmsFail)
      [] c.family = "AzBlob" -> AzValidateAndEncryptCredentials(c, data, kmsFail)
      [] c.family = "Crypt" -> CryptValidateAndEncryptCredentials(c, data, kmsFail)

isEqual(c, o) ==
    CASE c.family = "S3" -> S3isEqual(c, o)
      [] c.family = "GCS" -> GCSisEqual(c, o)
      [] c.family = "AzBlob" -> AzisEqual(c, o)
      [] c.family = "Crypt" -> CryptisEqual(c, o)

afterIsEqual(c, o) ==
    CASE c.family = "S3" -> S3afterIsEqual(c, o)
      [] c.family = "GCS" -> GCSafterIsEqual(c, o)
      [] c.family = "AzBlob" -> AzafterIsEqual(c, o)
      [] c.family = "Crypt" -> CryptafterIsEqual(c, o)

isSameResource(c, o) ==
    CASE c.family = "S3" -> S3isSameResource(c, o)
      [] c.family = "GCS" -> GCSisSameResource(c, o)
      [] c.family = "AzBlob" -> AzisSameResource(c, o)
      [] c.family = "Crypt" -> CryptisSameResource(c, o)

\* HideConfidentialData (194-198, 361-365, 462-469, 639-643): Hide on each
\* Secret of the config that is not nil
HideUnlessNil(s) == IF IsNil(s) THEN s ELSE Hide(s)

S3HideConfidentialData(c) == [c EXCEPT !.AccessSecret = HideUnlessNil(@)]
GCSHideConfidentialData(c) == [c EXCEPT !.Credentials = HideUnlessNil(@)]
AzHideConfidentialData(c) ==
    [c EXCEPT !.AccountKey = HideUnlessNil(@), !.SASURL = HideUnlessNil(@)]
CryptHideConfidentialData(c) == [c EXCEPT !.Passphrase = HideUnlessNil(@)]

HideConfidentialData(c) ==
    CASE c.family = "S3" -> S3HideConfidentialData(c)
      [] c.family = "GCS" -> GCSHideConfidentialData(c)
      [] c.family = "AzBlob" -> AzHideConfidentialData(c)
      [] c.family = "Crypt" -> CryptHideConfidentialData(c)

\* The Secret fields of each family.
SecretFields(c) ==
    CASE c.family = "S3" -> {"AccessSecret"}
      [] c.family = "GCS" -> {"Credentials"}
      [] c.family = "AzBlob" -> {"AccountKey", "SASURL"}
      [] c.family = "Crypt" -> {"Passphrase"}

AdditionalDataValues == {"u1", "u2"}

(***************************************************************************)
(* One configuration: validate, ValidateAndEncryptCredentials and           *)
(* HideConfidentialData are called on it in any order, any number of       *)
(* times, each call on the configuration the last one left.  kmsFailure is *)
(* the Encrypt call of ValidateAndEncryptCredentials that the KMS fails, 0 *)
(* for none.                                                               *)
(***************************************************************************)

InitCfg ==
    /\ NewPipeWriter
    /\ toWrite = 0
    /\ SweepIdle
    /\ ValuesIdle
    /\ \E c \in Variants(Bases, KeyPrefixValues, TRUE, MaxDiff - 1) :
         cfg \in {c} \cup Replaced(c, KeyPrefixValues, TRUE)
    /\ cfg0 = NoCfg
    /\ other = NoCfg
    /\ cfgOp = NoValue
    /\ cfgRet = NoRet
    /\ additionalData = ""
    /\ kmsFailure = 0
    /\ eqRet = <<>>
    /\ sameRet = <<>>

ValidateCall ==
    /\ cfg # NoCfg
    /\ other = NoCfg
    /\ LET r == validate(cfg)
       IN /\ cfg' = r.cfg
          /\ cfgRet' = r.err
    /\ cfg0' = cfg
    /\ cfgOp' = "validate"
    /\ UNCHANGED <<other, additionalData, kmsFailure, eqRet, sameRet>>
    /\ UNCHANGED notCfg

ValidateAndEncryptCall ==
    /\ cfg # NoCfg
    /\ other = NoCfg
    /\ \E data \in AdditionalDataValues, k \in 0..Cardinality(SecretFields(cfg)) :
         LET r == ValidateAndEncryptCredentials(cfg, data, k)
         IN /\ cfg' = r.cfg
            /\ cfgRet' = r.err
            /\ additionalData' = data
            /\ kmsFailure' = k
    /\ cfg0' = cfg
    /\ cfgOp' = "ValidateAndEncryptCredentials"
    /\ UNCHANGED <<other, eqRet, sameRet>>
    /\ UNCHANGED notCfg

HideConfidentialDataCall ==
    /\ cfg # NoCfg
    /\ other = NoCfg
    /\ cfg' = HideConfidentialData(cfg)
    /\ cfg0' = cfg
    /\ cfgOp' = "HideConfidentialData"
    /\ cfgRet' = NoRet
    /\ UNCHANGED <<other, additionalData, kmsFailure, eqRet, sameRet>>
    /\ UNCHANGED notCfg

NextCfg == ValidateCall \/ ValidateAndEncryptCall \/ HideConfidentialDataCall

SpecCfg == InitCfg /\ [][NextCfg]_vars

(***************************************************************************)
(* Two configurations of one family, with non-nil Secrets: isEqual and     *)
(* isSameResource are called on the first with the second as argument.     *)
(***************************************************************************)

PairPrefixes == {<<"a", "/">>}

InitPair ==
    /\ NewPipeWriter
    /\ toWrite = 0
    /\ SweepIdle
    /\ ValuesIdle
    /\ \E c \in Variants(Bases, PairPrefixes, FALSE, MaxDiff - 1) :
         cfg \in {c} \cup Replaced(c, PairPrefixes, FALSE)
    /\ other \in {cfg} \cup Replaced(cfg, PairPrefixes, FALSE)
    /\ cfg0 = NoCfg
    /\ cfgOp = NoValue
    /\ cfgRet = NoRet
    /\ additionalData = ""
    /\ kmsFailure = 0
    /\ eqRet = <<>>
    /\ sameRet = <<>>

IsEqualCall ==
    /\ other # NoCfg
    /\ eqRet = <<>>
    /\ eqRet' = <<isEqual(cfg, other)>>
    /\ cfg' = afterIsEqual(cfg, other)
    /\ cfg0' = cfg
    /\ cfgOp' = "isEqual"
    /\ UNCHANGED <<other, cfgRet, additionalData, kmsFailure, sameRet>>
    /\ UNCHANGED notCfg

IsSameResourceCall ==
    /\ other # NoCfg
    /\ sameRet = <<>>
    /\ sameRet' = <<isSameResource(cfg, other)>>
    /\ cfg0' = cfg
    /\ cfgOp' = "isSameResource"
    /\ UNCHANGED <<cfg, other, cfgRet, additionalData, kmsFailure, eqRet>>
    /\ UNCHANGED notCfg

NextPair == IsEqualCall \/ IsSameResourceCall

SpecPair == InitPair /\ [][NextPair]_vars

(***************************************************************************)
(* Claims about the configurations                                         *)
(***************************************************************************)

WithKeyPrefix == {"S3", "GCS", "AzBlob"}

ValidateSucceeded == cfgOp = "validate" /\ cfgRet = NilErr

\* C8: for the S3, GCS and Azure Blob configs and every input key prefix, when
\* validate returns no error the resulting KeyPrefix is empty, or it does not
\* start with "/" and it ends with "/".
C8_KeyPrefixNormalised ==
    (ValidateSucceeded /\ cfg.family \in WithKeyPrefix) =>
        \/ cfg.KeyPrefix = <<>>
        \/ ~HasPrefix(cfg.KeyPrefix, Slash) /\ HasSuffix(cfg.KeyPrefix, Slash)

\* validate accepted the GCS prefix "a/.." and left "./"
C8_Witness ==
    /\ ValidateSucceeded
    /\ cfg.family = "GCS"
    /\ cfg0.KeyPrefix = <<"a", "/", ".", ".">>
    /\ cfg.KeyPrefix = <<".", "/">>

EncryptReturned == cfgOp = "ValidateAndEncryptCredentials"

\* C9 as stated: every Secret field that is plain before
\* ValidateAndEncryptCredentials is called is encrypted after the call.
C9_Original ==
    EncryptReturned =>
        \A f \in SecretFields(cfg0) : IsPlain(cfg0[f]) => IsEncrypted(cfg[f])

\* C9: when ValidateAndEncryptCredentials returns no error, every Secret field
\* that was plain before the call is encrypted after it, except the GCS
\* credentials under automatic_credentials = 1, which are replaced by an empty
\* Secret.
C9_PlainBecomesEncrypted ==
    (EncryptReturned /\ cfgRet = NilErr) =>
        \A f \in SecretFields(cfg0) :
            IsPlain(cfg0[f]) =>
                IF cfg0.family = "GCS" /\ cfg0.AutomaticCredentials = 1
                THEN IsEmpty(cfg[f])
                ELSE IsEncrypted(cfg[f])

\* both Secrets of an Azure Blob config were plain and are encrypted
C9_Witness ==
    /\ EncryptReturned
    /\ cfgRet = NilErr
    /\ cfg0.family = "AzBlob"
    /\ IsPlain(cfg0.AccountKey) /\ IsPlain(cfg0.SASURL)
    /\ IsEncrypted(cfg.AccountKey) /\ IsEncrypted(cfg.SASURL)

\* C10: for two configs of one family with non-nil Secrets, when isEqual
\* returns true isSameResource returns true.
C10_EqualIsSameResource ==
    (eqRet = <<TRUE>> /\ sameRet # <<>>) => sameRet = <<TRUE>>

\* both calls returned true on two Azure Blob configs with a SAS URL
C10_Witness ==
    /\ eqRet = <<TRUE>>
    /\ sameRet = <<TRUE>>
    /\ cfg.family = "AzBlob"
    /\ ~IsEmpty(cfg.SASURL)

(***************************************************************************)
(* QuotaCheckResult (160-185).  An int64 is the record [k, n] standing for *)
(* k * 2^63 + n with n small: the values next to 0 (k = 0), next to the    *)
(* smallest int64 (k = -1, n >= 0) and next to the largest (k = 1, n < 0). *)
(* The arithmetic wraps as Go's does.  int is taken as 64 bits wide.       *)
(***************************************************************************)

MaxOffset == 2

Int64(k, n) == [k |-> k, n |-> n]
Zero64 == Int64(0, 0)

InRange64(k, n) == k = 0 \/ (k = -1 /\ n >= 0) \/ (k = 1 /\ n < 0)

\* k * 2^63 + n reduced modulo 2^64 into the int64 range
Wrap64(k, n) ==
    IF InRange64(k, n) THEN Int64(k, n)
    ELSE IF k = 2 \/ k = -2 THEN Int64(0, n)
    ELSE IF k = 1 THEN Int64(-1, n)
    ELSE Int64(1, n)

Sub64(a, b) == Wrap64(a.k - b.k, a.n - b.n)
Add64(a, b) == Wrap64(a.k + b.k, a.n + b.n)
Less64(a, b) == a.k < b.k \/ (a.k = b.k /\ a.n < b.n)
Positive64(a) == Less64(Zero64, a)
Negative64(a) == Less64(a, Zero64)

Int64Values ==
    {Int64(-1, n) : n \in 0..MaxOffset}
        \cup {Int64(0, n) : n \in -MaxOffset..MaxOffset}
        \cup {Int64(1, n) : n \in -MaxOffset..-1}

GetRemainingSizeUnguarded(r) == Sub64(r.QuotaSize, r.UsedSize)

GetRemainingSize(r) ==
    IF Positive64(r.QuotaSize) THEN Sub64(r.QuotaSize, r.UsedSize) ELSE Zero64

GetRemainingFiles(r) ==
    IF Positive64(r.QuotaFiles) THEN Sub64(r.QuotaFiles, r.UsedFiles) ELSE Zero64

InitQuota ==
    /\ NewPipeWriter
    /\ toWrite = 0
    /\ SweepIdle
    /\ CfgIdle
    /\ \E qs \in Int64Values, us \in Int64Values,
          qf \in Int64Values, uf \in Int64Values :
         q = [HasSpace |-> TRUE, AllowedSize |-> Zero64, AllowedFiles |-> Zero64,
              UsedSize |-> us, UsedFiles |-> uf, QuotaSize |-> qs, QuotaFiles |-> qf]
    /\ remainingSize = <<>>
    /\ remainingFiles = <<>>
    /\ PathIdle
    /\ FsIdle
    /\ UtilIdle
    /\ CallsIdle

GetRemainingSizeCall ==
    /\ q # NoQuota
    /\ remainingSize = <<>>
    /\ remainingSize' = <<GetRemainingSize(q)>>
    /\ UNCHANGED <<q, remainingFiles, pathName, absPath, fs, answers>>
    /\ UNCHANGED notValues

GetRemainingFilesCall ==
    /\ q # NoQuota
    /\ remainingFiles = <<>>
    /\ remainingFiles' = <<GetRemainingFiles(q)>>
    /\ UNCHANGED <<q, remainingSize, pathName, absPath, fs, answers>>
    /\ UNCHANGED notValues

NextQuota == GetRemainingSizeCall \/ GetRemainingFilesCall

SpecQuota == InitQuota /\ [][NextQuota]_vars

\* what is left of quota once used is taken, as the claim states it
RemainderOf(quota, used, remaining) ==
    IF Positive64(quota)
    THEN /\ Add64(remaining, used) = quota
         /\ Less64(quota, used) => Negative64(remaining)
         /\ ~Negative64(used) => InRange64(quota.k - used.k, quota.n - used.n)
    ELSE remaining = Zero64

\* C11: when QuotaSize > 0, GetRemainingSize() + UsedSize = QuotaSize (the
\* remainder is negative when UsedSize exceeds QuotaSize, and the subtraction
\* does not overflow when UsedSize >= 0); when QuotaSize <= 0,
\* GetRemainingSize() = 0; the same for GetRemainingFiles with QuotaFiles and
\* UsedFiles.
C11_Remaining ==
    /\ remainingSize # <<>> =>
         RemainderOf(q.QuotaSize, q.UsedSize, remainingSize[1])
    /\ remainingFiles # <<>> =>
         RemainderOf(q.QuotaFiles, q.UsedFiles, remainingFiles[1])

\* the used size exceeds the quota and the remainder is negative, and the file
\* quota is unset
C11_Witness ==
    /\ remainingSize # <<>> /\ remainingFiles # <<>>
    /\ q.QuotaSize = Int64(0, 1) /\ q.UsedSize = Int64(0, 2)
    /\ remainingSize[1] = Int64(0, -1)
    /\ q.QuotaFiles = Zero64 /\ q.UsedFiles = Int64(0, 1)
    /\ remainingFiles[1] = Zero64

(***************************************************************************)
(* ensureAbsPath (866-871), applied to a name and then to its own result.  *)
(***************************************************************************)

PathNames ==
    KeyPrefixValues
        \cup { <<>>, <<"a", "/", ".", ".", "/", "b">>, <<".", ".", "/", "a", "/">>,
               <<"/", "a", "/", ".", ".", "/", "b">>, <<"a", "/", "/", "b">> }

InitPath ==
    /\ NewPipeWriter
    /\ toWrite = 0
    /\ SweepIdle
    /\ CfgIdle
    /\ QuotaIdle
    /\ FsIdle
    /\ UtilIdle
    /\ CallsIdle
    /\ pathName \in PathNames
    /\ absPath = <<>>

EnsureAbsPathCall ==
    /\ Len(absPath) < 2
    /\ absPath' = Append(absPath,
                         ensureAbsPath(IF absPath = <<>> THEN pathName
                                       ELSE absPath[Len(absPath)]))
    /\ UNCHANGED <<q, remainingSize, remainingFiles, pathName, fs, answers>>
    /\ UNCHANGED notValues

NextPath == EnsureAbsPathCall

SpecPath == InitPath /\ [][NextPath]_vars

\* C12: ensureAbsPath is idempotent, ensureAbsPath(ensureAbsPath(p)) =
\* ensureAbsPath(p) for every path p, and its result always starts with "/".
C12_Idempotent ==
    /\ \A i \in 1..Len(absPath) : HasPrefix(absPath[i], Slash)
    /\ Len(absPath) = 2 => absPath[2] = absPath[1]

\* applied twice to "a/../b", which the first call changes
C12_Witness ==
    /\ pathName = <<"a", "/", ".", ".", "/", "b">>
    /\ absPath = << <<"/", "b">>, <<"/", "b">> >>

\* The elements of a path, the parts between its "/".
RECURSIVE Elements(_)
Elements(p) ==
    IF \A i \in 1..Len(p) : p[i] # "/" THEN <<p>>
    ELSE LET i == CHOOSE j \in 1..Len(p) :
                      p[j] = "/" /\ \A h \in 1..(j - 1) : p[h] # "/"
         IN <<SubSeq(p, 1, i - 1)>> \o Elements(SubSeq(p, i + 1, Len(p)))

\* A relative name that is empty, or whose elements are separated by single
\* "/" and are neither empty nor "." nor "..".
PlainName(p) ==
    \/ p = <<>>
    \/ \A i \in 1..Len(Elements(p)) :
          Elements(p)[i] \notin {<<>>, <<".">>, <<".", ".">>}

\* C13 as stated: a name starting with "/" is returned unchanged, any other
\* name is returned with "/" put before it.
C13_Original ==
    Len(absPath) >= 1 =>
        absPath[1] = IF HasPrefix(pathName, Slash) THEN pathName
                     ELSE Slash \o pathName

\* C13: ensureAbsPath returns a name starting with "/" unchanged; any other
\* name it returns as path.Clean("/" + name), which is "/" followed by name
\* exactly when name is empty or made of elements other than "", "." and ".."
\* separated by single "/".
C13_EnsureAbsPath ==
    Len(absPath) >= 1 =>
        IF HasPrefix(pathName, Slash) THEN absPath[1] = pathName
        ELSE /\ absPath[1] = Clean(Slash \o pathName)
             /\ PlainName(pathName) <=> absPath[1] = Slash \o pathName

\* the name "a//b/" comes back as "/a/b"
C13_Witness ==
    /\ pathName = <<"a", "/", "/", "b", "/">>
    /\ Len(absPath) >= 1
    /\ absPath[1] = <<"/", "a", "/", "b">>

ValidateReturned == cfgOp = "validate"

\* the bucket is set and so is the region or the endpoint
S3Located(c) == c.Bucket # "" /\ (c.Endpoint # "" \/ c.Region # "")

NoSecret(s) == IsEmpty(OrEmpty(s))

\* C14 as stated: S3 validate succeeds only with access_key and access_secret
\* both empty or both non-empty; a key without a secret is rejected with an
\* error naming access_secret, a secret without a key with one naming access_key.
C14_Original ==
    (ValidateReturned /\ cfg0.family = "S3") =>
        /\ cfgRet = NilErr => (cfg0.AccessKey = "" <=> NoSecret(cfg0.AccessSecret))
        /\ (cfg0.AccessKey # "" /\ NoSecret(cfg0.AccessSecret)) =>
              cfgRet.type = "error" /\ cfgRet.msg[1] = "access_secret"
        /\ (cfg0.AccessKey = "" /\ ~NoSecret(cfg0.AccessSecret)) =>
              cfgRet.type = "error" /\ cfgRet.msg[1] = "access_key"

\* C14: S3 validate succeeds only with access_key and access_secret both empty
\* or both non-empty; when the bucket and the region or endpoint are set, a key
\* without a secret (empty or nil) is rejected with an error naming
\* access_secret and a secret without a key with an error naming access_key.
C14_CredentialCoupling ==
    (ValidateReturned /\ cfg0.family = "S3") =>
        /\ cfgRet = NilErr => (cfg0.AccessKey = "" <=> NoSecret(cfg0.AccessSecret))
        /\ (S3Located(cfg0) /\ cfg0.AccessKey # "" /\ NoSecret(cfg0.AccessSecret)) =>
              cfgRet.type = "error" /\ cfgRet.msg[1] = "access_secret"
        /\ (S3Located(cfg0) /\ cfg0.AccessKey = "" /\ ~NoSecret(cfg0.AccessSecret)) =>
              cfgRet.type = "error" /\ cfgRet.msg[1] = "access_key"

\* a key with a nil secret was rejected
C14_Witness ==
    /\ ValidateReturned
    /\ cfg0.family = "S3"
    /\ cfg0.AccessKey = "ak" /\ IsNil(cfg0.AccessSecret) /\ S3Located(cfg0)
    /\ cfgRet.type = "error" /\ cfgRet.msg[1] = "access_secret"

S3PartSizeOK(n) == n = 0 \/ n \in 5..5000
S3ConcurrencyOK(n) == n \in 0..64

S3PartsOK(c) ==
    /\ S3PartSizeOK(c.UploadPartSize) /\ S3PartSizeOK(c.DownloadPartSize)
    /\ S3ConcurrencyOK(c.UploadConcurrency) /\ S3ConcurrencyOK(c.DownloadConcurrency)

\* a Secret that is acceptable input and, when encrypted, valid ciphertext
GoodSecret(s) == ~IsNil(s) /\ IsValidInput(s) /\ (IsEncrypted(s) => IsValid(s))

\* bucket, region, credentials and key prefix are valid
S3OtherwiseValid(c) ==
    /\ S3Located(c)
    /\ \/ c.AccessKey = "" /\ NoSecret(c.AccessSecret)
       \/ c.AccessKey # "" /\ GoodSecret(c.AccessSecret)
    /\ ~HasPrefix(c.KeyPrefix, Slash)

\* C15: S3 validate succeeds only if both part sizes are 0 or within 5..5000
\* and both concurrencies within 0..64; with bucket, region, credentials and
\* key prefix valid it accepts every combination inside these ranges and
\* rejects every value outside them.
C15_PartSizeAndConcurrency ==
    (ValidateReturned /\ cfg0.family = "S3") =>
        /\ cfgRet = NilErr => S3PartsOK(cfg0)
        /\ S3OtherwiseValid(cfg0) => (cfgRet = NilErr <=> S3PartsOK(cfg0))

\* the limits 5, 5000 and 64 were accepted together
C15_Witness ==
    /\ ValidateReturned /\ cfg0.family = "S3" /\ cfgRet = NilErr
    /\ cfg0.UploadPartSize = 5 /\ cfg0.DownloadPartSize = 5000
    /\ cfg0.UploadConcurrency = 64 /\ cfg0.DownloadConcurrency = 64

\* C16: Azure Blob validate succeeds only with coupled credentials: the SAS
\* URL Secret is non-empty, or account_name is non-empty and account_key is a
\* valid Secret; a config with an empty SAS URL and an empty account_name or
\* an invalid account_key is rejected.
C16_AzureCredentials ==
    (ValidateReturned /\ cfg0.family = "AzBlob") =>
        /\ cfgRet = NilErr =>
              \/ ~NoSecret(cfg0.SASURL)
              \/ cfg0.AccountName # "" /\ GoodSecret(cfg0.AccountKey)
        /\ (NoSecret(cfg0.SASURL)
            /\ (cfg0.AccountName = "" \/ ~GoodSecret(cfg0.AccountKey))) =>
              cfgRet.type = "error"

\* no SAS URL and no account name: rejected although the account key is good
C16_Witness ==
    /\ ValidateReturned /\ cfg0.family = "AzBlob"
    /\ NoSecret(cfg0.SASURL) /\ cfg0.Container # ""
    /\ cfg0.AccountName = "" /\ GoodSecret(cfg0.AccountKey)
    /\ cfgRet = ErrorsNew("credentials cannot be empty or invalid")

AllowedTiers == {"", "Archive", "Hot", "Cool"}

AzPartSizeOK(n) == n \in 0..100

\* every field but the access tier is valid
AzOtherwiseValid(c) ==
    /\ IF NoSecret(c.SASURL)
       THEN c.Container # "" /\ c.AccountName # "" /\ GoodSecret(c.AccountKey)
       ELSE /\ IsPlain(c.SASURL) => UrlParse(GetPayload(c.SASURL)) = NilErr
            /\ IsEncrypted(c.SASURL) => IsValid(c.SASURL)
    /\ ~HasPrefix(c.KeyPrefix, Slash)
    /\ AzPartSizeOK(c.UploadPartSize) /\ AzPartSizeOK(c.DownloadPartSize)
    /\ S3ConcurrencyOK(c.UploadConcurrency) /\ S3ConcurrencyOK(c.DownloadConcurrency)

\* the message shows every allowed tier, the empty one as ''
ListsAllowedTiers(msg) ==
    \A t \in AllowedTiers :
        \E i \in 1..Len(msg) : msg[i] = (IF t = "" THEN "''" ELSE t)

\* C17: Azure Blob validate succeeds only with access_tier one of "",
\* "Archive", "Hot", "Cool"; with all other fields valid each of the four is
\* accepted and any other tier is rejected with an error listing them.
C17_AccessTier ==
    (ValidateReturned /\ cfg0.family = "AzBlob") =>
        /\ cfgRet = NilErr => cfg0.AccessTier \in AllowedTiers
        /\ AzOtherwiseValid(cfg0) =>
              IF cfg0.AccessTier \in AllowedTiers THEN cfgRet = NilErr
              ELSE cfgRet.type = "error" /\ ListsAllowedTiers(cfgRet.msg)

\* the tier "Warm" was rejected
C17_Witness ==
    /\ ValidateReturned /\ cfg0.family = "AzBlob"
    /\ AzOtherwiseValid(cfg0) /\ cfg0.AccessTier = "Warm"
    /\ cfgRet.type = "error" /\ ListsAllowedTiers(cfgRet.msg)

\* C18: GCS validate requires credentials unless automatic_credentials is 1:
\* for every other value of automatic_credentials, validate succeeds only if
\* the credentials Secret is acceptable input (IsValidInput).
C18_CredentialsRequired ==
    (ValidateReturned /\ cfg0.family = "GCS" /\ cfg0.AutomaticCredentials # 1
     /\ cfgRet = NilErr) =>
        IsValidInput(OrEmpty(cfg0.Credentials))

\* everything validate checks apart from the credentials as input
GCSOtherwiseValid(c) ==
    /\ c.Bucket # ""
    /\ ~HasPrefix(c.KeyPrefix, Slash)
    /\ c.AutomaticCredentials = 1
       \/ ~(IsEncrypted(OrEmpty(c.Credentials)) /\ ~IsValid(OrEmpty(c.Credentials)))

\* credentials are required as acceptable input exactly when
\* automatic_credentials is 0; for any other value they are not
C18_RequiredWhenZero ==
    (ValidateReturned /\ cfg0.family = "GCS") =>
        IF cfg0.AutomaticCredentials = 0
        THEN /\ cfgRet = NilErr => IsValidInput(OrEmpty(cfg0.Credentials))
             /\ ~IsValidInput(OrEmpty(cfg0.Credentials)) => cfgRet.type = "error"
        ELSE GCSOtherwiseValid(cfg0) => cfgRet = NilErr

\* explicit credentials were asked for and unacceptable ones were rejected
C18_Witness ==
    /\ ValidateReturned /\ cfg0.family = "GCS" /\ cfg0.AutomaticCredentials = 0
    /\ cfg0.Bucket # "" /\ ~IsValidInput(OrEmpty(cfg0.Credentials))
    /\ cfgRet = ErrorsNew("invalid credentials")

EncryptedInvalid(s) == IsEncrypted(OrEmpty(s)) /\ ~IsValid(OrEmpty(s))

\* C19: for every config family, after a successful validate no Secret of the
\* config (S3 access_secret, GCS credentials, Azure account_key and sas_url,
\* Crypt passphrase) is encrypted and invalid.
C19_NoInvalidEncryptedSecret ==
    (ValidateReturned /\ cfgRet = NilErr) =>
        \A f \in SecretFields(cfg) : ~EncryptedInvalid(cfg[f])


(***************************************************************************)
(* Capability predicates over an Fs (740-818)                              *)
(***************************************************************************)

\* the name constants of the backends; the last three are set at 43-45
osFsName == <<"o", "s", "f", "s">>
cryptFsName == <<"c", "r", "y", "p", "t", "f", "s">>
sftpFsName == <<"s", "f", "t", "p", "f", "s">>
httpFsName == <<"h", "t", "t", "p", "f", "s">>
s3fsName == <<"S", "3", "F", "s">>
gcsfsName == <<"G", "C", "S", "F", "s">>
azBlobFsName == <<"A", "z", "u", "r", "e", "B", "l", "o", "b", "F", "s">>

IsLocalOsFs(f) == f.Name = osFsName

IsCryptOsFs(f) == f.Name = cryptFsName

IsSFTPFs(f) == HasPrefix(f.Name, sftpFsName)

IsHTTPFs(f) == HasPrefix(f.Name, httpFsName)

IsBufferedSFTPFs(f) ==
    IF ~IsSFTPFs(f) THEN FALSE ELSE ~f.IsUploadResumeSupported

IsLocalOrUnbufferedSFTPFs(f) ==
    IF IsLocalOsFs(f) THEN TRUE
    ELSE IF IsSFTPFs(f) THEN f.IsUploadResumeSupported
    ELSE FALSE

IsLocalOrSFTPFs(f) == IsLocalOsFs(f) \/ IsSFTPFs(f)

HasTruncateSupport(f) == IsLocalOsFs(f) \/ IsSFTPFs(f) \/ IsHTTPFs(f)

HasImplicitAtomicUploads(f) ==
    IF HasPrefix(f.Name, s3fsName) THEN TRUE
    ELSE IF HasPrefix(f.Name, gcsfsName) THEN TRUE
    ELSE IF HasPrefix(f.Name, azBlobFsName) THEN TRUE
    ELSE FALSE

HasOpenRWSupportAnySFTP(f) ==
    IF IsLocalOsFs(f) THEN TRUE
    ELSE IF IsSFTPFs(f) THEN TRUE
    ELSE FALSE

HasOpenRWSupport(f) ==
    IF IsLocalOsFs(f) THEN TRUE
    ELSE IF IsSFTPFs(f) /\ f.IsUploadResumeSupported THEN TRUE
    ELSE FALSE

IsLocalOrCryptoFs(f) == IsLocalOsFs(f) \/ IsCryptOsFs(f)

Markers ==
    {osFsName, cryptFsName, sftpFsName, httpFsName, s3fsName, gcsfsName,
     azBlobFsName}

\* what follows the name constant in the Name() of a configured backend
NameSuffix == <<" ", "x">>

\* each constant alone, with a suffix, and cut short by one character, the
\* empty name and a name of no backend
FsNames ==
    Markers
    \cup { m \o NameSuffix : m \in Markers }
    \cup { SubSeq(m, 1, Len(m) - 1) : m \in Markers }
    \cup { <<>>, <<"x">> }

FsValues == [Name : FsNames, IsUploadResumeSupported : BOOLEAN]

InitFs ==
    /\ NewPipeWriter
    /\ toWrite = 0
    /\ SweepIdle
    /\ CfgIdle
    /\ QuotaIdle
    /\ PathIdle
    /\ UtilIdle
    /\ CallsIdle
    /\ fs \in FsValues
    /\ answers = <<>>

\* the answers so far with the result of one more predicate
Answered(predicate, result) == (predicate :> result) @@ answers

\* each predicate is called on fs at most once and its result is kept
IsLocalOsFsCall ==
    /\ "IsLocalOsFs" \notin DOMAIN answers
    /\ answers' = Answered("IsLocalOsFs", IsLocalOsFs(fs))
    /\ UNCHANGED <<q, remainingSize, remainingFiles, pathName, absPath, fs>>
    /\ UNCHANGED notValues

IsCryptOsFsCall ==
    /\ "IsCryptOsFs" \notin DOMAIN answers
    /\ answers' = Answered("IsCryptOsFs", IsCryptOsFs(fs))
    /\ UNCHANGED <<q, remainingSize, remainingFiles, pathName, absPath, fs>>
    /\ UNCHANGED notValues

IsSFTPFsCall ==
    /\ "IsSFTPFs" \notin DOMAIN answers
    /\ answers' = Answered("IsSFTPFs", IsSFTPFs(fs))
    /\ UNCHANGED <<q, remainingSize, remainingFiles, pathName, absPath, fs>>
    /\ UNCHANGED notValues

IsHTTPFsCall ==
    /\ "IsHTTPFs" \notin DOMAIN answers
    /\ answers' = Answered("IsHTTPFs", IsHTTPFs(fs))
    /\ UNCHANGED <<q, remainingSize, remainingFiles, pathName, absPath, fs>>
    /\ UNCHANGED notValues

IsBufferedSFTPFsCall ==
    /\ "IsBufferedSFTPFs" \notin DOMAIN answers
    /\ answers' = Answered("IsBufferedSFTPFs", IsBufferedSFTPFs(fs))
    /\ UNCHANGED <<q, remainingSize, remainingFiles, pathName, absPath, fs>>
    /\ UNCHANGED notValues

IsLocalOrUnbufferedSFTPFsCall ==
    /\ "IsLocalOrUnbufferedSFTPFs" \notin DOMAIN answers
    /\ answers' = Answered("IsLocalOrUnbufferedSFTPFs", IsLocalOrUnbufferedSFTPFs(fs))
    /\ UNCHANGED <<q, remainingSize, remainingFiles, pathName, absPath, fs>>
    /\ UNCHANGED notValues

IsLocalOrSFTPFsCall ==
    /\ "IsLocalOrSFTPFs" \notin DOMAIN answers
    /\ answers' = Answered("IsLocalOrSFTPFs", IsLocalOrSFTPFs(fs))
    /\ UNCHANGED <<q, remainingSize, remainingFiles, pathName, absPath, fs>>
    /\ UNCHANGED notValues

HasTruncateSupportCall ==
    /\ "HasTruncateSupport" \notin DOMAIN answers
    /\ answers' = Answered("HasTruncateSupport", HasTruncateSupport(fs))
    /\ UNCHANGED <<q, remainingSize, remainingFiles, pathName, absPath, fs>>
    /\ UNCHANGED notValues

HasImplicitAtomicUploadsCall ==
    /\ "HasImplicitAtomicUploads" \notin DOMAIN answers
    /\ answers' = Answered("HasImplicitAtomicUploads", HasImplicitAtomicUploads(fs))
    /\ UNCHANGED <<q, remainingSize, remainingFiles, pathName, absPath, fs>>
    /\ UNCHANGED notValues

HasOpenRWSupportCall ==
    /\ "HasOpenRWSupport" \notin DOMAIN answers
    /\ answers' = Answered("HasOpenRWSupport", HasOpenRWSupport(fs))
    /\ UNCHANGED <<q, remainingSize, remainingFiles, pathName, absPath, fs>>
    /\ UNCHANGED notValues

IsLocalOrCryptoFsCall ==
    /\ "IsLocalOrCryptoFs" \notin DOMAIN answers
    /\ answers' = Answered("IsLocalOrCryptoFs", IsLocalOrCryptoFs(fs))
    /\ UNCHANGED <<q, remainingSize, remainingFiles, pathName, absPath, fs>>
    /\ UNCHANGED notValues

NextFs ==
    \/ IsLocalOsFsCall
    \/ IsCryptOsFsCall
    \/ IsSFTPFsCall
    \/ IsHTTPFsCall
    \/ IsBufferedSFTPFsCall
    \/ IsLocalOrUnbufferedSFTPFsCall
    \/ IsLocalOrSFTPFsCall
    \/ HasTruncateSupportCall
    \/ HasImplicitAtomicUploadsCall
    \/ HasOpenRWSupportCall
    \/ IsLocalOrCryptoFsCall

SpecFs == InitFs /\ [][NextFs]_vars

Asked(predicate) == predicate \in DOMAIN answers

\* local, or SFTP with upload resume, written out on Name()
LocalOrResumableSFTP ==
    \/ fs.Name = <<"o", "s", "f", "s">>
    \/ /\ Len(fs.Name) >= 6
       /\ SubSeq(fs.Name, 1, 6) = <<"s", "f", "t", "p", "f", "s">>
       /\ fs.IsUploadResumeSupported

StartsWith(marker) ==
    Len(fs.Name) >= Len(marker) /\ SubSeq(fs.Name, 1, Len(marker)) = marker

\* crypt-local, HTTP, S3, GCS, Azure Blob, or SFTP without upload resume
NoRandomRWBackend ==
    \/ fs.Name = cryptFsName
    \/ StartsWith(httpFsName)
    \/ StartsWith(s3fsName)
    \/ StartsWith(gcsfsName)
    \/ StartsWith(azBlobFsName)
    \/ StartsWith(sftpFsName) /\ ~fs.IsUploadResumeSupported

\* C20: for every filesystem, whatever its name and upload-resume support,
\* HasOpenRWSupport and IsLocalOrUnbufferedSFTPFs return the same value, which
\* is local or (SFTP and upload resume supported); both are false for
\* crypt-local, HTTP, S3, GCS, Azure Blob and buffered SFTP filesystems.
C20_OpenRWIsLocalOrUnbufferedSFTP ==
    /\ Asked("HasOpenRWSupport") =>
          /\ answers["HasOpenRWSupport"] = LocalOrResumableSFTP
          /\ NoRandomRWBackend => answers["HasOpenRWSupport"] = FALSE
    /\ Asked("IsLocalOrUnbufferedSFTPFs") =>
          /\ answers["IsLocalOrUnbufferedSFTPFs"] = LocalOrResumableSFTP
          /\ NoRandomRWBackend => answers["IsLocalOrUnbufferedSFTPFs"] = FALSE
    /\ (Asked("HasOpenRWSupport") /\ Asked("IsLocalOrUnbufferedSFTPFs")) =>
          answers["HasOpenRWSupport"] = answers["IsLocalOrUnbufferedSFTPFs"]

\* both predicates were called on a buffered SFTP filesystem and were false
C20_Witness ==
    /\ fs.Name = sftpFsName \o NameSuffix
    /\ ~fs.IsUploadResumeSupported
    /\ Asked("HasOpenRWSupport") /\ Asked("IsLocalOrUnbufferedSFTPFs")
    /\ answers["HasOpenRWSupport"] = FALSE
    /\ answers["IsLocalOrUnbufferedSFTPFs"] = FALSE


(***************************************************************************)
(* isEqualityCheckModeValid (727-729) and SetPathPermissions (820-834)     *)
(***************************************************************************)

isEqualityCheckModeValid(m) == m >= 0 \/ m <= 1

\* what one call of SetPathPermissions does: the fs.Chown calls it makes
\* and the messages it logs; it returns nothing
PermOutcome(calls, logs) == [chown |-> calls, logged |-> logs]

ChownWarning(path, e) ==
    [level |-> "Warn", msg |-> <<"error chowning path ", path, ": ", e>>]

SetPathPermissionsEitherId(f, path, uid, gid, os, e) ==
    IF uid = -1 \/ gid = -1 THEN PermOutcome(<<>>, <<>>)
    ELSE IF IsLocalOsFs(f) /\ os = "windows" THEN PermOutcome(<<>>, <<>>)
    ELSE PermOutcome(<<[path |-> path, uid |-> uid, gid |-> gid]>>,
                     IF e # Nil THEN <<ChownWarning(path, e)>> ELSE <<>>)

SetPathPermissions(f, path, uid, gid, os, e) ==
    IF uid = -1 /\ gid = -1 THEN PermOutcome(<<>>, <<>>)
    ELSE IF IsLocalOsFs(f) /\ os = "windows" THEN PermOutcome(<<>>, <<>>)
    ELSE PermOutcome(<<[path |-> path, uid |-> uid, gid |-> gid]>>,
                     IF e # Nil THEN <<ChownWarning(path, e)>> ELSE <<>>)

Modes == (0 - MaxMode)..MaxMode
Ids == {-1, 0, 1000}
PermPaths == {<<"/", "d", "/", "x">>}
PermFs ==
    [Name : {osFsName, cryptFsName, sftpFsName \o NameSuffix,
             s3fsName \o NameSuffix},
     IsUploadResumeSupported : {FALSE}]
ChownErrors == {Nil, "ErrPermission"}

InitUtil ==
    /\ NewPipeWriter
    /\ toWrite = 0
    /\ SweepIdle
    /\ CfgIdle
    /\ QuotaIdle
    /\ PathIdle
    /\ CallsIdle
    /\ fs \in PermFs
    /\ answers = <<>>
    /\ mode \in Modes
    /\ modeValid = <<>>
    /\ permArgs \in [path : PermPaths, uid : Ids, gid : Ids]
    /\ goos \in {"linux", "windows"}
    /\ chownErr \in ChownErrors
    /\ chownCalls = <<>>
    /\ logged = <<>>
    /\ permDone = FALSE

IsEqualityCheckModeValidCall ==
    /\ modeValid = <<>>
    /\ modeValid' = <<isEqualityCheckModeValid(mode)>>
    /\ UNCHANGED <<mode, permArgs, goos, chownErr, chownCalls, logged, permDone>>
    /\ UNCHANGED notUtil

SetPathPermissionsCall ==
    /\ ~permDone
    /\ LET r == SetPathPermissions(fs, permArgs.path, permArgs.uid,
                                   permArgs.gid, goos, chownErr)
       IN /\ chownCalls' = chownCalls \o r.chown
          /\ logged' = logged \o r.logged
    /\ permDone' = TRUE
    /\ UNCHANGED <<mode, modeValid, permArgs, goos, chownErr>>
    /\ UNCHANGED notUtil

NextUtil ==
    \/ IsEqualityCheckModeValidCall
    \/ SetPathPermissionsCall

SpecUtil == InitUtil /\ [][NextUtil]_vars

\* C21: isEqualityCheckModeValid(mode) is true exactly when mode is 0 or 1,
\* and false for every other integer, negative or greater than 1.
C21_ModeValid ==
    modeValid # <<>> => (modeValid[1] <=> mode \in {0, 1})

\* C23: SetPathPermissions calls fs.Chown at most once: not at all when uid
\* and gid are both -1 or when fs is local and the OS is Windows, otherwise
\* exactly once with (path, uid, gid), also when only one id is -1; a Chown
\* failure is only logged.
C23_ChownAtMostOnce ==
    /\ Len(chownCalls) <= 1
    /\ ~permDone => chownCalls = <<>> /\ logged = <<>>
    /\ permDone =>
          IF \/ permArgs.uid = -1 /\ permArgs.gid = -1
             \/ fs.Name = osFsName /\ goos = "windows"
          THEN chownCalls = <<>> /\ logged = <<>>
          ELSE /\ chownCalls = <<permArgs>>
               /\ IF chownErr = Nil THEN logged = <<>>
                  ELSE /\ Len(logged) = 1
                       /\ logged[1].level = "Warn"
                       /\ logged[1].msg[4] = chownErr

\* only the uid was -1, Chown was called and its failure was logged
C23_Witness ==
    /\ permDone
    /\ permArgs.uid = -1 /\ permArgs.gid = 1000
    /\ chownCalls = <<permArgs>>
    /\ chownErr = "ErrPermission"
    /\ Len(logged) = 1


(***************************************************************************)
(* Further claims on the metadata operations                               *)
(***************************************************************************)

\* the plugin was asked on a non-sweep path and answered with an error
PluginFailed ==
    /\ op \in {"stat", "list"}
    /\ statRet # NoStat
    /\ hasMetadater
    /\ op = "stat" => ~statArgs.info.isDir
    /\ statArgs.reply.err # Nil

NoSuchObjectAnswer ==
    statArgs.reply.err \in {"ErrNoSuchObject", "wrapped ErrNoSuchObject"}

\* C22: on the non-sweep paths every failure of the metadata store degrades
\* to "no metadata": the file info comes back with its modification time
\* unchanged, or the mod-time map comes back empty, and no error is returned,
\* for every plugin error and not only for "no such object".
C22_Original ==
    PluginFailed =>
        /\ statRet.err = Nil
        /\ op = "stat" => statRet.info = statArgs.info
        /\ op = "list" => DOMAIN statRet.modTimes = {}

\* only "no such object" degrades to "no metadata"; any other plugin error
\* is returned, with the info unchanged or the map the plugin gave
C22_OnlyNoSuchObjectDegrades ==
    PluginFailed =>
        /\ statRet.err = IF NoSuchObjectAnswer THEN Nil ELSE statArgs.reply.err
        /\ op = "stat" => statRet.info = statArgs.info
        /\ op = "list" => statRet.modTimes = statArgs.reply.modTimes

\* a wrapped "no such object" was answered to a per-stat lookup
C22_Witness ==
    /\ PluginFailed
    /\ op = "stat"
    /\ statArgs.reply.err = "wrapped ErrNoSuchObject"
    /\ statRet.err = Nil
    /\ statRet.info = statArgs.info


\* the page the plugin returned to the i-th GetMetadataFolders request
PageOf(i) == GetMetadataFolders(requests[i][1], requests[i][2], nFolders)

LastFolderOf(page) == page[Len(page)]

\* C24: the first GetMetadataFolders request has cursor "" and limit 100;
\* every later one has limit 100 and as cursor the last folder of the page
\* before it, also when that folder was skipped by the key-prefix filter or
\* had an empty metadata map.
C24_Cursor ==
    op = "sweep" =>
        \A i \in 1..Len(requests) :
            /\ requests[i][2] = 100
            /\ requests[i][1] = IF i = 1 THEN <<>>
                                ELSE LastFolderOf(PageOf(i - 1))

\* a second page was requested after a first one whose last folder, /p100,
\* lies outside the key prefix p/
C24_Witness ==
    /\ op = "sweep"
    /\ keyPrefix = <<"p", "/">>
    /\ Len(requests) = 2
    /\ requests[2] = <<FolderName(100), 100>>
    /\ ~PassesFilter(FolderName(100))

\* the metadata map the plugin holds for a folder
MetadataOf(f) == ModificationTimes(FolderIndex(f, nFolders))

Listable(f) == PassesFilter(f) /\ DOMAIN MetadataOf(f) # {}

\* how many of the plugin's folders pass the filter, and how many of those
\* have a non-empty metadata map
PassingFolders == {i \in 1..nFolders : PassesFilter(FolderName(i))}
ListableFolders == {i \in PassingFolders : DOMAIN ModificationTimes(i) # {}}

\* C25, the calls one by one: GetModificationTimes is made for a folder
\* that passes the filter, getFileNamesInPrefix and RemoveMetadata for a
\* folder that passes it and has a non-empty metadata map
C25_EachCall ==
    /\ nCalls'["modtimes"] # nCalls["modtimes"] => PassesFilter(folder)
    /\ nCalls'["files"] # nCalls["files"] =>
          Listable(folder) /\ fsPrefix = FsPrefixOf(folder)
    /\ nCalls'["remove"] # nCalls["remove"] => Listable(folder)

\* C25, the calls counted: never more GetModificationTimes calls than
\* folders visited that pass the filter, never more listings than those; a
\* sweep that returns without a failure has asked the plugin once for each
\* folder that passes the filter and listed the backend once for each of
\* them with a non-empty map
C25_Counts ==
    (op = "sweep" /\ hasMetadater) =>
        /\ nCalls["modtimes"] <= Cardinality({f \in BagToSet(visited) : PassesFilter(f)})
        /\ nCalls["files"] <= nCalls["modtimes"]
        /\ (Returned /\ sweepRet = Nil) =>
              /\ nCalls["modtimes"] = Cardinality(PassingFolders)
              /\ nCalls["files"] = Cardinality(ListableFolders)

\* C25: during a sweep getFileNamesInPrefix and RemoveMetadata are called
\* only for folders that pass the key-prefix filter (key_prefix empty, or
\* the folder name with a trailing '/' starts with "/" + key_prefix) and have
\* a non-empty metadata map; for a folder that fails the filter not even
\* GetModificationTimes is called, and for a folder with an empty map the
\* backend is not listed.
C25_CallsOnlyForFilteredFolders ==
    [](C25_Counts) /\ [][C25_EachCall]_vars

\* a sweep of 101 folders under the key prefix p/ has returned: the folders
\* outside the prefix were not asked for, those with an empty map not listed
C25_Witness ==
    /\ Returned /\ sweepRet = Nil
    /\ nFolders = limit + 1
    /\ keyPrefix = <<"p", "/">>
    /\ nCalls["modtimes"] = Cardinality(PassingFolders)
    /\ nCalls["modtimes"] < nFolders
    /\ nCalls["files"] = Cardinality(ListableFolders)
    /\ nCalls["files"] < nCalls["modtimes"]
    /\ nCalls["files"] > 0


(***************************************************************************)
(* Further claims on ValidateAndEncryptCredentials and isSameResource      *)
(***************************************************************************)

\* what validate alone makes of the config the call was given
Validated == validate(cfg0)

\* the Secret was handed to SetAdditionalData and Encrypt and shows it: it is
\* not the Secret validate left (a plain Secret that already carried the
\* additional data of the call, and whose Encrypt failed, does not show it)
PassedToEncrypt(f) == cfg[f] # Validated.cfg[f]

\* C26: when validate fails, ValidateAndEncryptCredentials returns a typed
\* validation error and calls neither SetAdditionalData nor Encrypt, so no
\* plain Secret is encrypted; when validate succeeds only plain Secrets are
\* passed to Encrypt, encrypted and empty ones are left as they are, and an
\* Encrypt failure is returned as a validation error too.
C26_ValidationErrors ==
    EncryptReturned =>
        /\ cfgRet = NilErr \/ cfgRet.type = "ValidationError"
        /\ Validated.err # NilErr =>
              /\ cfgRet.type = "ValidationError"
              /\ cfg = Validated.cfg
              /\ \A f \in SecretFields(cfg0) :
                    /\ ~PassedToEncrypt(f)
                    /\ IsPlain(cfg0[f]) => ~IsEncrypted(cfg[f])
        /\ Validated.err = NilErr =>
              /\ \A f \in SecretFields(cfg0) :
                    /\ PassedToEncrypt(f) =>
                          /\ IsPlain(Validated.cfg[f])
                          /\ cfg[f].ad = additionalData
                    /\ ~IsPlain(Validated.cfg[f]) => cfg[f] = Validated.cfg[f]
              /\ cfgRet = NilErr =>
                    \A f \in SecretFields(cfg0) : ~IsPlain(cfg[f])
              /\ cfgRet # NilErr =>
                    \E f \in SecretFields(cfg0) :
                        /\ IsPlain(Validated.cfg[f])
                        /\ IsPlain(cfg[f])
                        /\ cfg[f].ad = additionalData

\* an Azure Blob config passed validate, its account key was encrypted and
\* the Encrypt of its SAS URL failed
C26_Witness ==
    /\ EncryptReturned
    /\ cfg0.family = "AzBlob"
    /\ Validated.err = NilErr
    /\ IsPlain(cfg0.AccountKey) /\ IsEncrypted(cfg.AccountKey)
    /\ IsPlain(cfg.SASURL) /\ cfg.SASURL.ad = additionalData
    /\ cfgRet.type = "ValidationError"

\* validate failed on a config with a plain Secret
C26_FailedValidateKeepsPlain ==
    /\ EncryptReturned
    /\ Validated.err # NilErr
    /\ \E f \in SecretFields(cfg0) : IsPlain(cfg0[f]) /\ cfg[f] = cfg0[f]


(***************************************************************************)
(* PipeWriter.Close and PipeWriter.Done called by several goroutines       *)
(* (703-715): each call runs in a goroutine of its own, so calls of one    *)
(* side may follow one another or overlap.                                 *)
(***************************************************************************)

Closers == 1..MaxClosers
Doners == 1..MaxDoners

InitCalls ==
    /\ NewPipeWriter
    /\ toWrite = 0
    /\ SweepIdle
    /\ CfgIdle
    /\ QuotaIdle
    /\ PathIdle
    /\ FsIdle
    /\ UtilIdle
    /\ closePc = [i \in Closers |-> "idle"]
    /\ donePc = [j \in Doners |-> "idle"]
    /\ sharedErr = Nil
    /\ closeRets = [i \in Closers |-> NoValue]

\* Close is called: p.writer.Close(), then the call waits at <-p.done
CloseEnter ==
    \E i \in Closers :
        /\ closePc[i] = "idle"
        /\ closePc' = [closePc EXCEPT ![i] = "recv"]
        /\ UNCHANGED <<donePc, sharedErr, closeRets>>
        /\ UNCHANGED notCalls

\* Done(e) is called: p.err = e, then the call waits at p.done <- true
DoneEnter ==
    \E j \in Doners, e \in UploadErrors \cup {Nil} :
        /\ donePc[j] = "idle"
        /\ sharedErr' = e
        /\ donePc' = [donePc EXCEPT ![j] = "send"]
        /\ UNCHANGED <<closePc, closeRets>>
        /\ UNCHANGED notCalls

\* Mutant of Rendezvous: the send completes with no receiver, as on a
\* buffered channel.
RendezvousBuffered ==
    \E j \in Doners :
        /\ donePc[j] = "send"
        /\ donePc' = [donePc EXCEPT ![j] = "sent"]
        /\ UNCHANGED <<closePc, sharedErr, closeRets>>
        /\ UNCHANGED notCalls

\* The channel is unbuffered: one send of a Done call meets one receive of
\* a Close call.
Rendezvous ==
    \E i \in Closers, j \in Doners :
        /\ closePc[i] = "recv"
        /\ donePc[j] = "send"
        /\ closePc' = [closePc EXCEPT ![i] = "recvd"]
        /\ donePc' = [donePc EXCEPT ![j] = "sent"]
        /\ UNCHANGED <<sharedErr, closeRets>>
        /\ UNCHANGED notCalls

\* return p.err
CloseLeave ==
    \E i \in Closers :
        /\ closePc[i] = "recvd"
        /\ closeRets' = [closeRets EXCEPT ![i] = sharedErr]
        /\ closePc' = [closePc EXCEPT ![i] = "returned"]
        /\ UNCHANGED <<donePc, sharedErr>>
        /\ UNCHANGED notCalls

DoneLeave ==
    \E j \in Doners :
        /\ donePc[j] = "sent"
        /\ donePc' = [donePc EXCEPT ![j] = "returned"]
        /\ UNCHANGED <<closePc, sharedErr, closeRets>>
        /\ UNCHANGED notCalls

NextCalls ==
    \/ CloseEnter
    \/ DoneEnter
    \/ Rendezvous
    \/ CloseLeave
    \/ DoneLeave

SpecCalls == InitCalls /\ [][NextCalls]_vars

CloseCallsAt(pcs) == Cardinality({i \in Closers : closePc[i] \in pcs})
DoneCallsAt(pcs) == Cardinality({j \in Doners : donePc[j] \in pcs})

CloseStarted == CloseCallsAt({"recv", "recvd", "returned"})
CloseReceived == CloseCallsAt({"recvd", "returned"})
CloseReturned == CloseCallsAt({"returned"})
DoneStarted == DoneCallsAt({"send", "sent", "returned"})
DoneSent == DoneCallsAt({"sent", "returned"})
DoneReturned == DoneCallsAt({"returned"})

\* C27: Close and Done pair one to one over the unbuffered channel: the
\* number of Close calls that have returned equals the number of Done calls
\* that have returned, up to one handshake in progress, and never exceeds
\* the number of Done calls started.
C27_Original ==
    /\ CloseReturned - DoneReturned \in {-1, 0, 1}
    /\ CloseReturned <= DoneStarted

\* every completed receive of a Close is matched by one completed send of a
\* Done, so neither side has more returned calls than the other has started
C27_Paired ==
    /\ CloseReceived = DoneSent
    /\ CloseReturned <= DoneStarted
    /\ DoneReturned <= CloseStarted
    /\ DoneStarted = 1 => CloseReturned <= 1

\* a Done call gets past its send only while a Close call waits to receive
C27_DoneWaitsForClose ==
    \A j \in Doners :
        (donePc[j] = "send" /\ donePc'[j] # "send") =>
            \E i \in Closers : closePc[i] = "recv" /\ closePc'[i] = "recvd"

C27_OneToOne == [](C27_Paired) /\ [][C27_DoneWaitsForClose]_vars

\* two Close calls were made and one Done: one Close has returned, the other
\* is still waiting after Done has returned
C27_Witness ==
    /\ DoneStarted = 1 /\ DoneReturned = 1
    /\ CloseStarted = 2 /\ CloseReturned = 1
    /\ \E i \in Closers : closePc[i] = "recv"


\* the fields that identify the resource of each family
ResourceFields(family) ==
    CASE family = "S3" -> {"Bucket", "Endpoint", "Region"}
      [] family = "GCS" -> {"Bucket"}
      [] family = "AzBlob" -> {"AccountName", "Endpoint", "SASURL"}
      [] family = "Crypt" -> {"Passphrase"}

\* a Secret counts by its payload only
ResourceValue(c, f) == IF f \in SecretFields(c) THEN c[f].payload ELSE c[f]

SameResourceFields ==
    \A f \in ResourceFields(cfg.family) :
        ResourceValue(cfg, f) = ResourceValue(other, f)

C28_Result ==
    sameRet # <<>> => (sameRet[1] <=> SameResourceFields)

C28_NoChange ==
    sameRet' # sameRet => cfg' = cfg /\ other' = other

\* C28: isSameResource is true exactly when the resource-identifying fields
\* are equal (S3: bucket, endpoint, region; GCS: bucket; Azure Blob:
\* account_name, endpoint, SAS URL payload, not the container; Crypt:
\* passphrase payload), whatever the other fields, and changes neither config.
C28_SameResource == [](C28_Result) /\ [][C28_NoChange]_vars

\* two Azure Blob configs with different containers are the same resource
C28_Witness ==
    /\ sameRet = <<TRUE>>
    /\ cfg.family = "AzBlob"
    /\ cfg.Container # other.Container
    /\ cfgOp = "isSameResource" /\ cfg = cfg0

====
